---- MODULE Spec2Model ----
(***************************************************************************)
(* Model of src/app.py: the text normalizer (clean_html), the OPDS feed    *)
(* parser (parse_opds_feed), the library matcher (check_library) and the   *)
(* series scan of get_author_books.                                         *)
(*                                                                          *)
(* Python strings are modelled as sequences of one-character strings, so    *)
(* that the regular expressions, prefix tests and splits of the source are  *)
(* computed character by character.                                        *)
(***************************************************************************)
EXTENDS Integers, Sequences, FiniteSets

VARIABLES
    raw_html,       \* clean_html: the argument of the last call
    cleantext,      \* clean_html: the value it returned
    xml_content,    \* parse_opds_feed: the feed document of the last call
    well_formed,    \* parse_opds_feed: whether those bytes are well-formed XML
    base_url,       \* parse_opds_feed: the base_url of the last call
    entries,        \* parse_opds_feed: the list it returned
    book_titles,    \* check_library: data['titles'] of the last request
    resp,           \* check_library: the catalog response (status, feed)
    results,        \* check_library: the 'results' mapping it answered
    content,        \* get_author_books: content.find_all([...]) in order
    series_list,    \* get_author_books: the 'series' list it answered
    query,          \* search_bookseriesinorder: the argument q
    fetched,        \* search_bookseriesinorder: the search page came back
    soup,           \* search_bookseriesinorder: the parsed search page
    authors,        \* search_bookseriesinorder: the list it answered
    ran,            \* search_bookseriesinorder: the strategies it ran
    pc              \* "call": the arguments are given, "done": it returned,
                    \* "raised": it ended with an exception, "error": the
                    \* handler answered an error

vars == <<raw_html, cleantext, xml_content, well_formed, base_url, entries,
          book_titles, resp, results, content, series_list,
          query, fetched, soup, authors, ran, pc>>

\* None: a one-element sequence whose element is no character
None == <<"None">>

(***************************************************************************)
(* Bounds of the model.                                                     *)
(***************************************************************************)
MaxPieces == 3      \* pieces concatenated into one clean_html argument

(***************************************************************************)
(* String helpers: str methods and the re patterns the source uses.         *)
(***************************************************************************)
\* \s of re, and the characters str.strip() and str.split() treat as blank
IsSpace(c) == c \in {" ", "\t", "\n"}

RECURSIVE Concat(_)
Concat(ss) == IF ss = <<>> THEN <<>> ELSE Head(ss) \o Concat(Tail(ss))

\* str.startswith(p)
StartsWith(s, p) == Len(s) >= Len(p) /\ SubSeq(s, 1, Len(p)) = p

\* p in s (substring test)
Contains(s, p) ==
    \E i \in 1..(Len(s) - Len(p) + 1) :
        \A k \in 1..Len(p) : s[i + k - 1] = p[k]

\* str.strip(chars) with the set of characters to strip given as a predicate
RECURSIVE LStripSet(_, _)
LStripSet(s, cs) ==
    IF s # <<>> /\ Head(s) \in cs THEN LStripSet(Tail(s), cs) ELSE s

RECURSIVE RStripSet(_, _)
RStripSet(s, cs) ==
    IF s # <<>> /\ s[Len(s)] \in cs
    THEN RStripSet(SubSeq(s, 1, Len(s) - 1), cs) ELSE s

StripSet(s, cs) == RStripSet(LStripSet(s, cs), cs)

Blank == {" ", "\t", "\n"}

\* str.strip()
Strip(s) == StripSet(s, Blank)

\* re.sub(r'\s+', ' ', s): every maximal run of blanks becomes one space;
\* a string whose runs of blanks are single spaces is returned as it is
RECURSIVE CollapseWs(_)
CollapseWs(s) ==
    IF \A i \in 1..Len(s) :
           IsSpace(s[i]) => (s[i] = " " /\ (i < Len(s) => ~IsSpace(s[i + 1])))
    THEN s
    ELSE IF IsSpace(Head(s))
         THEN <<" ">> \o CollapseWs(LStripSet(Tail(s), Blank))
         ELSE <<Head(s)>> \o CollapseWs(Tail(s))

\* index of the first c in s at or after i, 0 when there is none
RECURSIVE IndexFrom(_, _, _)
IndexFrom(s, c, i) ==
    IF i > Len(s) THEN 0
    ELSE IF s[i] = c THEN i ELSE IndexFrom(s, c, i + 1)

(***************************************************************************)
(* clean_html (src/app.py 35-41)                                            *)
(***************************************************************************)
\* the entries of html.entities.html5 that the model's alphabet can spell
Html5 == [n \in {<<"a","m","p",";">>, <<"a","m","p">>,
                 <<"l","t",";">>, <<"l","t">>,
                 <<"g","t",";">>, <<"g","t">>} |->
            IF n[1] = "a" THEN "&" ELSE IF n[1] = "l" THEN "<" ELSE ">"]

\* the characters of a character-reference name: [^\t\n\f <&#;]
NameChar(c) == c \notin {"\t", "\n", " ", "<", "&", "#", ";"}

\* last index of the run of name characters that starts at i (i-1 if none)
RECURSIVE NameEnd(_, _)
NameEnd(s, i) ==
    IF i <= Len(s) /\ NameChar(s[i]) THEN NameEnd(s, i + 1) ELSE i - 1

\* longest proper prefix of name (length x down to 2) that is an entity
RECURSIVE PrefixRef(_, _)
PrefixRef(name, x) ==
    IF x < 2 THEN <<"&">> \o name
    ELSE IF SubSeq(name, 1, x) \in DOMAIN Html5
         THEN <<Html5[SubSeq(name, 1, x)]>> \o SubSeq(name, x + 1, Len(name))
         ELSE PrefixRef(name, x - 1)

\* html._replace_charref for a named reference
ReplaceCharref(name) ==
    IF name \in DOMAIN Html5 THEN <<Html5[name]>>
    ELSE PrefixRef(name, Len(name) - 1)

\* html.unescape: one left-to-right pass, replacements are not rescanned
RECURSIVE UnescapeFrom(_, _)
UnescapeFrom(s, i) ==
    IF i > Len(s) THEN <<>>
    ELSE IF s[i] = "&" /\ NameEnd(s, i + 1) > i
         THEN LET j == NameEnd(s, i + 1)
                  k == IF j < Len(s) /\ s[j + 1] = ";" THEN j + 1 ELSE j
              IN  ReplaceCharref(SubSeq(s, i + 1, k)) \o UnescapeFrom(s, k + 1)
         ELSE <<s[i]>> \o UnescapeFrom(s, i + 1)

Unescape(s) == UnescapeFrom(s, 1)

\* re.sub(r'<[^>]+>', '', s): leftmost matches, '<', one or more non-'>', '>'
RECURSIVE StripTags(_)
StripTags(s) ==
    IF s = <<>> THEN <<>>
    ELSE IF Head(s) = "<" /\ IndexFrom(s, ">", 2) > 2
         THEN StripTags(SubSeq(s, IndexFrom(s, ">", 2) + 1, Len(s)))
         ELSE <<Head(s)>> \o StripTags(Tail(s))

\* the variant without the final .strip()
clean_html_NoStrip(raw) ==
    IF raw = None \/ raw = <<>> THEN <<>>
    ELSE CollapseWs(StripTags(Unescape(raw)))

clean_html(raw) ==
    IF raw = None \/ raw = <<>> THEN <<>>
    ELSE Strip(CollapseWs(StripTags(Unescape(raw))))

\* arguments of clean_html: up to MaxPieces pieces of markup and text
HtmlPieces ==
    { <<"&","a","m","p",";">>, <<"&","l","t",";">>, <<"&","g","t",";">>,
      <<"l","t",";">>, <<"<">>, <<">">>, <<"b">>, <<" ">> }

RawHtmls ==
    {None} \cup
    UNION { {Concat(ps) : ps \in [1..n -> HtmlPieces]} : n \in 0..MaxPieces }

\* the state of the functions that are not called
IdleClean == raw_html = <<>> /\ cleantext = <<>>
IdleFeed ==
    /\ xml_content = <<>> /\ well_formed = TRUE
    /\ base_url = <<>> /\ entries = <<>>
IdleLibrary ==
    /\ book_titles = <<>>
    /\ resp = [status_code |-> 200, content |-> <<>>, well_formed |-> TRUE]
    /\ results = [t \in {} |-> [in_library |-> FALSE]]
IdleAuthor == content = <<>> /\ series_list = <<>>
IdleSearch ==
    /\ query = <<>> /\ fetched = TRUE /\ soup = <<>>
    /\ authors = <<>> /\ ran = {}

InitClean ==
    /\ raw_html \in RawHtmls
    /\ cleantext = <<>>
    /\ pc = "call"
    /\ IdleFeed /\ IdleLibrary /\ IdleAuthor /\ IdleSearch

CleanHtml ==
    /\ pc = "call"
    /\ cleantext' = clean_html(raw_html)
    /\ pc' = "done"
    /\ UNCHANGED <<raw_html, xml_content, well_formed, base_url, entries, book_titles,
                   resp, results, content, series_list,
                   query, fetched, soup, authors, ran>>

NextClean == CleanHtml

SpecClean == InitClean /\ [][NextClean]_vars

(***************************************************************************)
(* parse_opds_feed (src/app.py 43-120)                                      *)
(*                                                                          *)
(* The feed document is the sequence of the root's atom:entry children.     *)
(* An entry element is a record of its children: title, id, summary,        *)
(* content, author (each Absent, None for an element without text, or the   *)
(* text), metas (the atom:meta children, in order), series (the             *)
(* schema:Series child) and links (the atom:link children, in order).       *)
(* A missing attribute reads as None, as Element.get returns it.            *)
(***************************************************************************)
MaxEntries == 3     \* entries in one feed
MaxMetas == 3       \* meta elements in one entry
MaxLinks == 2       \* link elements in one entry

\* a child element that is not there (find returned None)
Absent == <<"Absent">>

\* Python truthiness of an optional string
Truthy(v) == v # None /\ v # Absent /\ v # <<>>

UnknownTitle == <<"U","n","k","n","o","w","n"," ","T","i","t","l","e">>

\* the denylist without its last label
ContainerLabels_Two == { <<"L","i","b","r","a","r","i","e","s">>, <<"S","h","e","l","v","e","s">> }

ContainerLabels == { <<"L","i","b","r","a","r","i","e","s">>, <<"S","h","e","l","v","e","s">>, <<"M","a","g","i","c"," ","S","h","e","l","v","e","s">> }

TitleText(entry) ==
    IF entry.title # Absent THEN entry.title ELSE UnknownTitle

\* the loop over entry.findall('atom:meta'); st holds series_name,
\* series_index and series_id
RECURSIVE ScanMetas(_, _, _)
ScanMetas(metas, i, st) ==
    IF i > Len(metas) THEN st
    ELSE LET meta == metas[i] IN
         IF meta.property = "belongs-to-collection"
         THEN ScanMetas(metas, i + 1,
                        [st EXCEPT !.series_name = meta.text,
                                   !.series_id = meta.id])
         ELSE IF /\ meta.property = "group-position"
                 /\ Truthy(st.series_id)
                 /\ meta.refines = <<"#">> \o st.series_id
              THEN ScanMetas(metas, i + 1,
                             [st EXCEPT !.series_index = meta.text])
              ELSE ScanMetas(metas, i + 1, st)

\* the variant where a schema:Series element always wins
SeriesOf_Always(entry) ==
    LET st == ScanMetas(entry.metas, 1,
                        [series_name |-> None, series_index |-> None,
                         series_id |-> None])
    IN  IF entry.series.present
        THEN [st EXCEPT !.series_name = entry.series.name,
                        !.series_index = entry.series.position]
        ELSE st

\* the series name and index of an entry: the metas, else schema:Series
SeriesOf(entry) ==
    LET st == ScanMetas(entry.metas, 1,
                        [series_name |-> None, series_index |-> None,
                         series_id |-> None])
    IN  IF ~Truthy(st.series_name) /\ entry.series.present
        THEN [st EXCEPT !.series_name = entry.series.name,
                        !.series_index = entry.series.position]
        ELSE st

\* raw_desc: the summary's text, else the content's text, else ""
RawDesc(entry) ==
    IF entry.summary # Absent
    THEN (IF Truthy(entry.summary) THEN entry.summary ELSE <<>>)
    ELSE IF entry.content # Absent
         THEN (IF Truthy(entry.content) THEN entry.content ELSE <<>>)
         ELSE <<>>

(***************************************************************************)
(* urllib.parse.urljoin(base, url) for a base with an http(s) scheme and a  *)
(* url that is a reference with another scheme, a network-path              *)
(* reference (//host/..), an absolute path (/..), or a relative path        *)
(* without '.' or '..' segments, query or fragment.                         *)
(***************************************************************************)
SchemeChars ==
    { "a","b","c","d","e","f","g","h","i","j","k","l","m","n","o","p","q",
      "r","s","t","u","v","w","x","y","z","0","1","2","3","4","5","6","7",
      "8","9","+","-","." }

Letters == SchemeChars \ { "0","1","2","3","4","5","6","7","8","9","+","-","." }

\* urlsplit finds a scheme: letters, digits, + - . up to the first ':'
HasScheme(url) ==
    LET c == IndexFrom(url, ":", 1) IN
    /\ c > 1
    /\ url[1] \in Letters
    /\ \A k \in 1..(c - 1) : url[k] \in SchemeChars

\* index of the first character of s at or after i that is in cs, else
\* Len(s) + 1
RECURSIVE FirstOf(_, _, _)
FirstOf(s, cs, i) ==
    IF i > Len(s) THEN Len(s) + 1
    ELSE IF s[i] \in cs THEN i ELSE FirstOf(s, cs, i + 1)

\* index of the last '/' of s, 0 when there is none
RECURSIVE LastSlash(_, _)
LastSlash(s, i) ==
    IF i = 0 THEN 0 ELSE IF s[i] = "/" THEN i ELSE LastSlash(s, i - 1)

urljoin(base, url) ==
    LET c      == IndexFrom(base, ":", 1)
        scheme == SubSeq(base, 1, c)                    \* "http:" "https:"
        nend   == FirstOf(base, {"/", "?", "#"}, c + 3) \* past "//netloc"
        origin == SubSeq(base, 1, nend - 1)             \* scheme://netloc
        pend   == FirstOf(base, {"?", "#"}, nend)
        path   == SubSeq(base, nend, pend - 1)
        dir    == SubSeq(path, 1, LastSlash(path, Len(path)))
    IN  IF url = <<>> THEN base
        ELSE IF HasScheme(url) THEN url
        ELSE IF StartsWith(url, <<"/", "/">>) THEN scheme \o url
        ELSE IF StartsWith(url, <<"/">>) THEN origin \o url
        ELSE origin \o (IF dir = <<>> THEN <<"/">> ELSE dir) \o url

ImageProxy == <<"/","a","p","i","/","o","p","d","s","/","i","m","a","g","e","-","p","r","o","x","y","?","u","r","l","=">>

\* the variant that passes only http:// and https:// URLs through
RewriteHref_Scheme(raw_href, link_rel, base) ==
    IF Truthy(raw_href)
    THEN IF /\ StartsWith(raw_href, <<"/">>)
            /\ \/ Contains(link_rel, <<"i","m","a","g","e">>)
               \/ Contains(link_rel, <<"t","h","u","m","b","n","a","i","l">>)
         THEN ImageProxy \o raw_href
         ELSE IF \/ StartsWith(raw_href, <<"h","t","t","p",":","/","/">>)
                 \/ StartsWith(raw_href, <<"h","t","t","p","s",":","/","/">>)
              THEN raw_href
              ELSE urljoin(base, raw_href)
    ELSE <<>>

\* absolute_href of one link (src/app.py 99-110)
RewriteHref(raw_href, link_rel, base) ==
    IF Truthy(raw_href)
    THEN IF /\ StartsWith(raw_href, <<"/">>)
            /\ \/ Contains(link_rel, <<"i","m","a","g","e">>)
               \/ Contains(link_rel, <<"t","h","u","m","b","n","a","i","l">>)
         THEN ImageProxy \o raw_href
         ELSE IF StartsWith(raw_href, <<"h","t","t","p">>)
              THEN raw_href
              ELSE urljoin(base, raw_href)
    ELSE <<>>

ParseLink(link, base) ==
    LET link_rel == IF Truthy(link.rel) THEN link.rel ELSE <<>> IN
    [href |-> RewriteHref(link.href, link_rel, base),
     rel  |-> link_rel,
     type |-> link.type]

\* obj for one entry element (src/app.py 58-117)
ParseEntry(entry, base) ==
    LET sr == SeriesOf(entry) IN
    [title        |-> TitleText(entry),
     id           |-> IF entry.id # Absent THEN entry.id ELSE <<>>,
     links        |-> [i \in 1..Len(entry.links) |->
                          ParseLink(entry.links[i], base)],
     series_name  |-> sr.series_name,
     series_index |-> sr.series_index,
     description  |-> clean_html(RawDesc(entry)),
     author       |-> entry.author]

\* the loop over root.findall('atom:entry')
RECURSIVE ParseEntries(_, _, _)
ParseEntries(xml, i, base) ==
    IF i > Len(xml) THEN <<>>
    ELSE IF TitleText(xml[i]) \in ContainerLabels
         THEN ParseEntries(xml, i + 1, base)
         ELSE <<ParseEntry(xml[i], base)>> \o ParseEntries(xml, i + 1, base)

parse_opds_feed(xml, base) == ParseEntries(xml, 1, base)

\* the variant where the parser reports no error
ParseError_Never(ok) == FALSE

\* ET.fromstring(xml_content) raises ParseError on bytes that are not
\* well-formed XML; parse_opds_feed has no handler for it
ParseError(ok) == ~ok

(***************************************************************************)
(* The feeds given to parse_opds_feed.                                      *)
(***************************************************************************)
SeqsUpTo(S, n) == UNION { [1..k -> S] : k \in 0..n }

NoSeries == [present |-> FALSE, name |-> None, position |-> None]

PlainEntry ==
    [title |-> <<"D","u","n","e">>, id |-> <<"u","r","n",":","1">>, summary |-> Absent,
     content |-> Absent, author |-> Absent, metas |-> <<>>,
     series |-> NoSeries, links |-> <<>>]

FeedTitles ==
    { Absent, None, <<"D","u","n","e">>, <<"S","h","e","l","v","e","s"," ">>,
      <<"L","i","b","r","a","r","i","e","s">>, <<"S","h","e","l","v","e","s">>, <<"M","a","g","i","c"," ","S","h","e","l","v","e","s">> }

\* two collections, a and b, a group-position refining each, and a
\* collection element without text
FeedMetas ==
    { [property |-> "belongs-to-collection", id |-> <<"a">>, refines |-> None,
       text |-> <<"S","a","g","a"," ","A">>],
      [property |-> "belongs-to-collection", id |-> <<"b">>, refines |-> None,
       text |-> <<"S","a","g","a"," ","B">>],
      [property |-> "belongs-to-collection", id |-> <<"a">>, refines |-> None,
       text |-> None],
      [property |-> "group-position", id |-> None, refines |-> <<"#","a">>,
       text |-> <<"1">>],
      [property |-> "group-position", id |-> None, refines |-> <<"#","b">>,
       text |-> <<"2">>] }

FeedSeries ==
    { NoSeries, [present |-> TRUE, name |-> <<"S","a","g","a"," ","S">>, position |-> <<"7">>] }

FeedHrefs ==
    { None, <<>>, <<"c","o","v","e","r",".","j","p","g">>, <<"c","/","b">>, <<"/","c","o","v","e","r","s","/","1",".","j","p","g">>, <<"/","/","y",".","t","e","s","t","/","c",".","j","p","g">>,
      <<"h","t","t","p",":","/","/","y",".","t","e","s","t","/","b","o","o","k">>, <<"h","t","t","p","s",":","/","/","y",".","t","e","s","t","/","b","o","o","k">>, <<"h","t","t","p","_","c","o","v","e","r","s","/","1",".","j","p","g">>,
      <<"f","t","p",":","/","/","y",".","t","e","s","t","/","b">> }

FeedRels ==
    { None, <<"h","t","t","p",":","/","/","o","p","d","s","-","s","p","e","c",".","o","r","g","/","i","m","a","g","e","/","t","h","u","m","b","n","a","i","l">>,
      <<"h","t","t","p",":","/","/","o","p","d","s","-","s","p","e","c",".","o","r","g","/","a","c","q","u","i","s","i","t","i","o","n">> }

FeedLinks ==
    { [href |-> h, rel |-> r, type |-> None] : h \in FeedHrefs, r \in FeedRels }

FeedTexts == { Absent, None, <<"<","b",">","A","<","/","b",">"," "," ","t","a","l","e">> }

TitleFeeds ==
    { [i \in 1..Len(ts) |-> [PlainEntry EXCEPT !.title = ts[i]]] :
        ts \in SeqsUpTo(FeedTitles, MaxEntries) }

MetaFeeds ==
    { << [PlainEntry EXCEPT !.metas = ms, !.series = sr] >> :
        ms \in SeqsUpTo(FeedMetas, MaxMetas), sr \in FeedSeries }

LinkFeeds ==
    { << [PlainEntry EXCEPT !.links = ls] >> :
        ls \in SeqsUpTo(FeedLinks, MaxLinks) }

TextFeeds ==
    { << [PlainEntry EXCEPT !.summary = s, !.content = c, !.author = a] >> :
        s \in FeedTexts, c \in FeedTexts, a \in { Absent, <<"F","."," ","H","e","r","b","e","r","t">> } }

Feeds == TitleFeeds \cup MetaFeeds \cup LinkFeeds \cup TextFeeds

BaseUrls ==
    { <<"h","t","t","p","s",":","/","/","x",".","t","e","s","t","/","c","a","t","a","l","o","g","/">>,
      <<"h","t","t","p",":","/","/","b","o","o","k","l","o","r","e",":","6","0","6","0","/","a","p","i","/","v","1","/","o","p","d","s","/","c","a","t","a","l","o","g","?","q","=","a">> }

\* bytes that are not well-formed XML: xml_content holds the entries that
\* stand before the place of the error
InitFeed ==
    /\ \/ well_formed = TRUE /\ xml_content \in Feeds
       \/ well_formed = FALSE /\ xml_content \in TitleFeeds
    /\ base_url \in BaseUrls
    /\ entries = <<>>
    /\ pc = "call"
    /\ IdleClean /\ IdleLibrary /\ IdleAuthor /\ IdleSearch

ParseOpdsFeed ==
    /\ pc = "call"
    /\ IF ParseError(well_formed)
       THEN entries' = entries /\ pc' = "raised"
       ELSE /\ entries' = parse_opds_feed(xml_content, base_url)
            /\ pc' = "done"
    /\ UNCHANGED <<raw_html, cleantext, xml_content, well_formed, base_url, book_titles,
                   resp, results, content, series_list,
                   query, fetched, soup, authors, ran>>

NextFeed == ParseOpdsFeed

SpecFeed == InitFeed /\ [][NextFeed]_vars

(***************************************************************************)
(* check_library (src/app.py 865-985)                                       *)
(***************************************************************************)
MaxLibEntries == 2  \* entries in the catalog feed of one request
MaxQueries == 1     \* titles in one request

UpperCase ==
    << "A","B","C","D","E","F","G","H","I","J","K","L","M","N","O","P","Q",
       "R","S","T","U","V","W","X","Y","Z" >>

LowerCase ==
    << "a","b","c","d","e","f","g","h","i","j","k","l","m","n","o","p","q",
       "r","s","t","u","v","w","x","y","z" >>

LowerOf ==
    [c \in { UpperCase[k] : k \in DOMAIN UpperCase } |->
        LowerCase[CHOOSE k \in DOMAIN UpperCase : UpperCase[k] = c]]

\* str.lower()
Lower(s) ==
    [i \in 1..Len(s) |->
        IF s[i] \in DOMAIN LowerOf THEN LowerOf[s[i]] ELSE s[i]]

\* re.sub(r'\([^)]*\)', '', s): '(' up to the next ')' is removed; a
\* string without '(' is returned as it is
RECURSIVE RemoveParens(_)
RemoveParens(s) ==
    IF \A i \in 1..Len(s) : s[i] # "(" THEN s
    ELSE IF Head(s) = "(" /\ IndexFrom(s, ")", 2) > 0
         THEN RemoveParens(SubSeq(s, IndexFrom(s, ")", 2) + 1, Len(s)))
         ELSE <<Head(s)>> \o RemoveParens(Tail(s))

\* title_lower and entry_lower (src/app.py 902-904, 912-914)
Normalize(title) == Lower(Strip(CollapseWs(RemoveParens(title))))

\* str.split(): the maximal runs of non-blank characters, in order
Split(s) ==
    LET starts == { i \in 1..Len(s) :
                      s[i] \notin Blank /\ (i = 1 \/ s[i - 1] \in Blank) }
        ends   == { j \in 1..Len(s) :
                      s[j] \notin Blank /\ (j = Len(s) \/ s[j + 1] \in Blank) }
        nth(S, n) == CHOOSE i \in S : Cardinality({ k \in S : k <= i }) = n
    IN  [n \in 1..Cardinality(starts) |->
            SubSeq(s, nth(starts, n), nth(ends, n))]

Punctuation == { ",", ".", ";", ":", "!", "?", "/" }

\* set(w.strip(',.;:!?/') for w in s.split() if len(w.strip(',.;:!?/')) > 0)
WordSet(s) ==
    LET ws == Split(s) IN
    { StripSet(ws[i], Punctuation) : i \in 1..Len(ws) } \ { <<>> }

\* the filler words without the articles
filler_words_Short == { <<"a","n","d">>, <<"o","r">>, <<"b","u","t">> }

filler_words == { <<"a">>, <<"a","n">>, <<"t","h","e">>, <<"a","n","d">>, <<"o","r">>, <<"b","u","t">> }

Min(a, b) == IF a < b THEN a ELSE b
Max(a, b) == IF a > b THEN a ELSE b

(***************************************************************************)
(* int((c / n) * 100) for integers 0 < c < n (src/app.py 953).  c / n is    *)
(* a Python float, an IEEE 754 double: the quotient and the product are     *)
(* each rounded to 53 significant bits, to nearest, ties to even, and int   *)
(* truncates.  A natural number is a sequence of bits, lowest bit first.    *)
(***************************************************************************)
MantissaBits == 53

\* bit i of bits, 0 above its length
Bit(bits, i) == IF i <= Len(bits) THEN bits[i] ELSE 0

\* a + b: the carry into bit i comes from the nearest lower bit where both are
\* 1, through bits where one is 1
BitsAdd(a, b) ==
    LET len      == Max(Len(a), Len(b))
        both(i)  == Bit(a, i) + Bit(b, i)
        carry(i) == IF \E j \in 1..(i - 1) :
                           both(j) = 2 /\ \A k \in (j + 1)..(i - 1) : both(k) >= 1
                    THEN 1 ELSE 0
        top      == carry(len + 1)
    IN  [i \in 1..(len + top) |-> (both(i) + carry(i)) % 2]

\* bits * 2^k
ShiftLeft(bits, k) == [i \in 1..k |-> 0] \o bits

\* bits \div 2^k
ShiftRight(bits, k) ==
    IF k >= Len(bits) THEN <<>> ELSE SubSeq(bits, k + 1, Len(bits))

RECURSIVE BitsToInt(_)
BitsToInt(bits) ==
    IF bits = <<>> THEN 0 ELSE Head(bits) + 2 * BitsToInt(Tail(bits))

\* the number of zero bits of r / n after the binary point, for 0 < r < n
LeadingZeros(r, n) ==
    CHOOSE z \in 0..n : r * (2 ^ z) < n /\ r * (2 ^ (z + 1)) >= n

\* 2^i % n, for i < 60
Pow2Mod(i, n) ==
    LET high == IF i < 15 THEN 1 ELSE (((2 ^ 15) % n) ^ (i \div 15)) % n
    IN  (high * ((2 ^ (i % 15)) % n)) % n

\* the first k bits of r / n after the binary point, and what remains: the
\* i-th bit is taken from the remainder r * 2^(i - 1) % n
DivBits(r, n, k) ==
    [bits |-> [j \in 1..k |-> (2 * ((r * Pow2Mod(k - j, n)) % n)) \div n],
     rem  |-> (r * Pow2Mod(k, n)) % n]

\* bits rounded to MantissaBits significant bits: the mantissa and the
\* number of low bits dropped
RoundBits(bits) ==
    LET d == Len(bits) - MantissaBits IN
    IF d <= 0 THEN [bits |-> bits, dropped |-> 0]
    ELSE LET kept   == ShiftRight(bits, d)
             half   == bits[d] = 1
             sticky == \E i \in 1..(d - 1) : bits[i] = 1
             up     == half /\ (sticky \/ kept[1] = 1)
         IN  [bits    |-> IF up THEN BitsAdd(kept, <<1>>) ELSE kept,
              dropped |-> d]

\* the double c / n, as mantissa * 2^(-scale)
FloatDiv(c, n) ==
    LET z  == LeadingZeros(c, n)
        q  == DivBits(c * (2 ^ z), n, MantissaBits)
        up == \/ 2 * q.rem > n
              \/ 2 * q.rem = n /\ q.bits[1] = 1
    IN  [bits  |-> IF up THEN BitsAdd(q.bits, <<1>>) ELSE q.bits,
         scale |-> z + MantissaBits]

\* int((c / n) * 100)
PercentInt(c, n) ==
    LET f == FloatDiv(c, n)
        p == BitsAdd(BitsAdd(ShiftLeft(f.bits, 6), ShiftLeft(f.bits, 5)),
                     ShiftLeft(f.bits, 2))
        r == RoundBits(p)
    IN  BitsToInt(ShiftRight(r.bits, f.scale - r.dropped))

\* the variant that asks for every word of the query, not of the shorter
\* title
match_score_QueryWords(title_lower, entry_lower) ==
    IF title_lower = entry_lower THEN 100
    ELSE LET title_words        == WordSet(title_lower)
             entry_words        == WordSet(entry_lower)
             title_significant  == title_words \ filler_words
             entry_significant  == entry_words \ filler_words
             common_words       == title_words \cap entry_words
             common_significant == title_significant \cap entry_significant
             longer_word_count ==
                 Max(Cardinality(title_words), Cardinality(entry_words))
             shorter_sig_count ==
                 Min(Cardinality(title_significant),
                     Cardinality(entry_significant))
         IN  IF Cardinality(common_words) = 0 THEN 0
             ELSE IF Cardinality(common_words) = Cardinality(title_words)
                  THEN 85
             ELSE IF /\ Cardinality(common_significant) = shorter_sig_count
                     /\ shorter_sig_count >= 1
                  THEN 80
                  ELSE PercentInt(Cardinality(common_words),
                                  longer_word_count)

\* match_score of one entry (src/app.py 918-953)
match_score(title_lower, entry_lower) ==
    IF title_lower = entry_lower THEN 100
    ELSE LET title_words        == WordSet(title_lower)
             entry_words        == WordSet(entry_lower)
             title_significant  == title_words \ filler_words
             entry_significant  == entry_words \ filler_words
             common_words       == title_words \cap entry_words
             common_significant == title_significant \cap entry_significant
             shorter_word_count ==
                 Min(Cardinality(title_words), Cardinality(entry_words))
             longer_word_count ==
                 Max(Cardinality(title_words), Cardinality(entry_words))
             shorter_sig_count ==
                 Min(Cardinality(title_significant),
                     Cardinality(entry_significant))
         IN  IF Cardinality(common_words) = 0 THEN 0
             ELSE IF Cardinality(common_words) = shorter_word_count THEN 85
             ELSE IF /\ Cardinality(common_significant) = shorter_sig_count
                     /\ shorter_sig_count >= 1
                  THEN 80
                  ELSE PercentInt(Cardinality(common_words),
                                  longer_word_count)

\* the variant that takes the last link whose rel contains 'acquisition'
RECURSIVE AcquisitionLink_Last(_, _)
AcquisitionLink_Last(links, k) ==
    IF k > Len(links) THEN None
    ELSE LET later == AcquisitionLink_Last(links, k + 1) IN
         IF later # None THEN later
         ELSE IF Truthy(links[k].rel) /\ Contains(links[k].rel, <<"a","c","q","u","i","s","i","t","i","o","n">>)
              THEN links[k].href
              ELSE None

\* the first link whose rel contains 'acquisition' (src/app.py 959-963)
RECURSIVE AcquisitionLink(_, _)
AcquisitionLink(links, k) ==
    IF k > Len(links) THEN None
    ELSE IF Truthy(links[k].rel) /\ Contains(links[k].rel, <<"a","c","q","u","i","s","i","t","i","o","n">>)
         THEN links[k].href
         ELSE AcquisitionLink(links, k + 1)

NotInLibrary == [in_library |-> FALSE]

\* the variant that replaces the match kept so far on an equal score
RECURSIVE MatchLoop_LastTie(_, _, _, _, _)
MatchLoop_LastTie(title_lower, ents, i, best_match_score, found_entry) ==
    IF i > Len(ents) THEN found_entry
    ELSE LET entry == ents[i]
             score == match_score(title_lower, Normalize(entry.title))
         IN  IF score >= 70 /\ score >= best_match_score
             THEN MatchLoop_LastTie(title_lower, ents, i + 1, score,
                      [in_library   |-> TRUE,
                       match_score  |-> score,
                       opds_title   |-> entry.title,
                       download_url |-> AcquisitionLink(entry.links, 1)])
             ELSE MatchLoop_LastTie(title_lower, ents, i + 1,
                                    best_match_score, found_entry)

\* the loop over entries for one title (src/app.py 906-970)
RECURSIVE MatchLoop(_, _, _, _, _)
MatchLoop(title_lower, ents, i, best_match_score, found_entry) ==
    IF i > Len(ents) THEN found_entry
    ELSE LET entry == ents[i]
             score == match_score(title_lower, Normalize(entry.title))
         IN  IF score >= 70 /\ score > best_match_score
             THEN MatchLoop(title_lower, ents, i + 1, score,
                      [in_library   |-> TRUE,
                       match_score  |-> score,
                       opds_title   |-> entry.title,
                       download_url |-> AcquisitionLink(entry.links, 1)])
             ELSE MatchLoop(title_lower, ents, i + 1,
                            best_match_score, found_entry)

\* results[book_title] (src/app.py 900-975)
MatchTitle(book_title, ents) ==
    MatchLoop(Normalize(book_title), ents, 1, 0, NotInLibrary)

\* {'results': {}}
NoResults == [t \in {} |-> NotInLibrary]

\* re.sub on an entry title that is None raises TypeError, which the
\* handler's except clause answers with {'results': {}}
RaisesTypeError(titles, ents) ==
    titles # <<>> /\ \E i \in 1..Len(ents) : ents[i].title = None

search_url == <<"h","t","t","p",":","/","/","b","o","o","k","l","o","r","e",":","6","0","6","0","/","a","p","i","/","v","1","/","o","p","d","s","/","c","a","t","a","l","o","g","?","q","=","a">>

check_library(titles, response) ==
    IF titles = <<>> THEN NoResults
    ELSE IF response.status_code # 200 THEN NoResults
    ELSE IF ParseError(response.well_formed) THEN NoResults
    ELSE LET ents == parse_opds_feed(response.content, search_url) IN
         IF RaisesTypeError(titles, ents) THEN NoResults
         ELSE [t \in { titles[i] : i \in 1..Len(titles) } |->
                  MatchTitle(t, ents)]

(***************************************************************************)
(* The requests and the catalog responses given to check_library.           *)
(***************************************************************************)
QueryTitles ==
    { <<"D","u","n","e">>, <<"T","h","e"," ","V","i","s","i","t","o","r">>, <<"D","u","n","e"," ","M","e","s","s","i","a","h"," ","P","a","r","t"," ","O","n","e">>,
      <<"V","i","s","i","t","o","r",","," ","T","h","e"," ","(","2","0","0","0",")">>, <<"S","o","l","a","r","i","s">>, <<"B","l","i","n","d"," ","V","i","s","i","t","o","r"," ","M","e","s","s","i","a","h">> }

LibTitles ==
    { None, <<"D","u","n","e">>, <<"d","u","n","e"," ","(","1","9","6","5",")">>,
      <<"R","u","n","n","i","n","g"," ","B","l","i","n","d"," ","/"," ","T","h","e"," ","V","i","s","i","t","o","r">>, <<"A"," ","V","i","s","i","t","o","r"," ","R","e","t","u","r","n","s">>,
      <<"D","u","n","e"," ","M","e","s","s","i","a","h"," ","P","a","r","t"," ","T","w","o">> }

AcqRel == <<"h","t","t","p",":","/","/","o","p","d","s","-","s","p","e","c",".","o","r","g","/","a","c","q","u","i","s","i","t","i","o","n">>

LibLinks ==
    { [href |-> <<"/","d","l","/","1",".","e","p","u","b">>, rel |-> AcqRel, type |-> None],
      [href |-> <<"/","d","l","/","2",".","e","p","u","b">>,
       rel |-> <<"h","t","t","p",":","/","/","o","p","d","s","-","s","p","e","c",".","o","r","g","/","a","c","q","u","i","s","i","t","i","o","n","/","o","p","e","n","-","a","c","c","e","s","s">>,
       type |-> None],
      [href |-> <<"/","c","/","1",".","j","p","g">>, rel |-> <<"h","t","t","p",":","/","/","o","p","d","s","-","s","p","e","c",".","o","r","g","/","i","m","a","g","e">>,
       type |-> None],
      [href |-> <<"/","b","/","1">>, rel |-> None, type |-> None] }

LibTitleFeeds ==
    { [i \in 1..Len(ts) |-> [PlainEntry EXCEPT !.title = ts[i]]] :
        ts \in SeqsUpTo(LibTitles, MaxLibEntries) }

LibLinkFeeds ==
    { << [PlainEntry EXCEPT !.links = ls] >> :
        ls \in SeqsUpTo(LibLinks, MaxLinks) }

\* two entries whose titles normalize to 'dune', each with one link
LibPairFeeds ==
    { << [PlainEntry EXCEPT !.title = t1, !.links = <<l1>>],
         [PlainEntry EXCEPT !.title = t2, !.links = <<l2>>] >> :
        t1 \in { <<"D","u","n","e">>, <<"d","u","n","e"," ","(","1","9","6","5",")">> }, t2 \in { <<"D","u","n","e">>, <<"d","u","n","e"," ","(","1","9","6","5",")">> },
        l1 \in LibLinks, l2 \in LibLinks }

\* the first n of the two-character words xy, x of letters and y a digit
Words(letters, n) ==
    [i \in 1..n |->
        << letters[((i - 1) \div 10) + 1],
           <<"0","1","2","3","4","5","6","7","8","9">>[((i - 1) % 10) + 1] >>]

\* two-character words joined by single spaces
JoinWords(ws) ==
    [p \in 1..(3 * Len(ws) - 1) |->
        IF p % 3 = 0 THEN " " ELSE ws[((p - 1) \div 3) + 1][p % 3]]

\* a query of fifty words, and an entry of fifty words that has
\* twenty-nine of them
LongQuery == JoinWords(Words(<<"b","c","d","f","g">>, 50))

LongTitle ==
    JoinWords(Words(<<"b","c","d">>, 29) \o Words(<<"h","j","k">>, 21))

LongResponses ==
    { [status_code |-> 200,
       content |-> << [PlainEntry EXCEPT !.title = LongTitle] >>,
       well_formed |-> TRUE],
      [status_code |-> 200,
       content |-> << [PlainEntry EXCEPT !.title = LongTitle],
                      [PlainEntry EXCEPT !.title = LongQuery] >>,
       well_formed |-> TRUE] }

Responses ==
    { [status_code |-> 200, content |-> f, well_formed |-> TRUE] :
        f \in LibTitleFeeds \cup LibLinkFeeds \cup LibPairFeeds }
    \cup { [status_code |-> 503, content |-> <<>>, well_formed |-> TRUE],
           [status_code |-> 200, content |-> << PlainEntry >>,
            well_formed |-> FALSE] }

InitLibrary ==
    /\ \/ /\ book_titles \in SeqsUpTo(QueryTitles, MaxQueries)
          /\ resp \in Responses
       \/ /\ book_titles = << LongQuery >>
          /\ resp \in LongResponses
    /\ results = NoResults
    /\ pc = "call"
    /\ IdleClean /\ IdleFeed /\ IdleAuthor /\ IdleSearch

\* the local variable entries, once the feed was fetched and parsed
LibraryEntries(titles, response) ==
    IF /\ titles # <<>> /\ response.status_code = 200
       /\ ~ParseError(response.well_formed)
    THEN parse_opds_feed(response.content, search_url)
    ELSE <<>>

CheckLibrary ==
    /\ pc = "call"
    /\ entries' = LibraryEntries(book_titles, resp)
    /\ results' = check_library(book_titles, resp)
    /\ pc' = "done"
    /\ UNCHANGED <<raw_html, cleantext, xml_content, well_formed, base_url,
                   book_titles, resp, content, series_list,
                   query, fetched, soup, authors, ran>>

NextLibrary == CheckLibrary

SpecLibrary == InitLibrary /\ [][NextLibrary]_vars

(***************************************************************************)
(* get_author_books: the scan for series (src/app.py 741-855)               *)
(*                                                                          *)
(* content is the list content.find_all(['h2','h3','h4','ul','ol','p',      *)
(* 'table']) in document order.  An element is a record: name (the tag),    *)
(* text (get_text(strip=True) of a heading or a paragraph), href (of the    *)
(* paragraph's first a[href], None without one), items (the direct li       *)
(* children of a list, each with its text and the href of its first         *)
(* a[href]) and rows (the tr of a table, each the list of its td/th cells   *)
(* with text and href).                                                     *)
(***************************************************************************)
MaxElems == 4       \* elements of one document
MaxItems == 3       \* li children of one list
MaxRows == 2        \* rows of one table

Digits == { "0","1","2","3","4","5","6","7","8","9" }

skip_headers ==
    { <<"a","b","o","u","t"," ","t","h","e"," ","a","u","t","h","o","r">>, <<"a","u","t","h","o","r"," ","b","i","o">>, <<"b","i","o","g","r","a","p","h","y">>, <<"s","h","a","r","e"," ","t","h","i","s">>,
      <<"r","e","l","a","t","e","d">>, <<"t","a","g","s">>, <<"l","e","a","v","e"," ","a"," ","r","e","p","l","y">>, <<"r","e","s","p","o","n","s","e","s"," ","t","o">>,
      <<"c","o","m","m","e","n","t","s">>, <<"c","h","r","o","n","o","l","o","g","i","c","a","l"," ","o","r","d","e","r">>, <<"s","i","m","i","l","a","r"," ","a","u","t","h","o","r","s">>,
      <<"a","l","s","o"," ","r","e","a","d">>, <<"r","e","c","o","m","m","e","n","d","e","d">>, <<"y","o","u"," ","m","a","y"," ","a","l","s","o"," ","l","i","k","e">> }

\* any(skip in series_name.lower() for skip in skip_headers)
IsSkipHeader(series_name) ==
    LET lower == Lower(series_name) IN
    \E skip \in skip_headers : Contains(lower, skip)

\* 'amazon.com' in href or 'amzn.to' in href, for the first a[href]
AmazonLink(href) ==
    IF /\ href # None
       /\ (Contains(href, <<"a","m","a","z","o","n",".","c","o","m">>) \/ Contains(href, <<"a","m","z","n",".","t","o">>))
    THEN href ELSE <<>>

Book(book_text, link) == [title |-> book_text, amazon_link |-> link]

li_skips ==
    { <<"n","a","m","e">>, <<"e","m","a","i","l">>, <<"c","o","m","m","e","n","t">>, <<"a","g","o">>, <<"m","o","n","t","h","s"," ","a","g","o">>,
      <<"y","e","a","r"," ","a","g","o">>, <<"w","e","e","k","s"," ","a","g","o">> }

\* the variant that rejects only items that are both short and plain
AcceptLi_And(book_text) ==
    /\ LET lower == Lower(book_text) IN
       ~\E skip \in li_skips : Contains(lower, skip)
    /\ ~( /\ Len(book_text) < 10
          /\ ~\E k \in 1..Len(book_text) :
                  book_text[k] \in Digits \cup {"(", ")"} )
    /\ book_text # <<>>

\* a list item that is appended (src/app.py 823-842)
AcceptLi(book_text) ==
    /\ LET lower == Lower(book_text) IN
       ~\E skip \in li_skips : Contains(lower, skip)
    /\ ~( \/ Len(book_text) < 10
          \/ ~\E k \in 1..Len(book_text) :
                  book_text[k] \in Digits \cup {"(", ")"} )
    /\ book_text # <<>>

\* the books of one ul/ol, in order (src/app.py 822-846)
RECURSIVE ListBooks(_, _)
ListBooks(items, k) ==
    IF k > Len(items) THEN <<>>
    ELSE IF AcceptLi(items[k].text)
         THEN <<Book(items[k].text, AmazonLink(items[k].href))>>
              \o ListBooks(items, k + 1)
         ELSE ListBooks(items, k + 1)

p_skips == { <<"t","h","e","n"," ","r","e","a","d">>, <<"r","e","a","d"," ","i","n">>, <<"i","n"," ","o","r","d","e","r">>, <<"o","r","d","e","r"," ","t","o"," ","r","e","a","d">> }

\* re.search(r'\d+:.*\d+:.*\d+:', s): three times a digit before a ':'
NumberedList(s) ==
    Cardinality({ k \in 1..(Len(s) - 1) :
                    s[k] \in Digits /\ s[k + 1] = ":" }) >= 3

\* a paragraph that is appended (src/app.py 791-814)
AcceptP(book_text) ==
    /\ ~(Len(book_text) > 200)
    /\ ~NumberedList(book_text)
    /\ LET lower == Lower(book_text) IN
       ~\E phrase \in p_skips : Contains(lower, phrase)
    /\ book_text # <<>>
    /\ \E k \in 1..Len(book_text) : book_text[k] = "("

ParagraphBooks(elem) ==
    IF AcceptP(elem.text)
    THEN <<Book(elem.text, AmazonLink(elem.href))>> ELSE <<>>

table_headers == { <<"t","i","t","l","e">>, <<"b","o","o","k">>, <<"y","e","a","r">>, <<"d","a","t","e">> }

\* the first amazon href among the cells' first links (src/app.py 774-781)
RECURSIVE RowLink(_, _)
RowLink(cells, k) ==
    IF k > Len(cells) THEN <<>>
    ELSE IF AmazonLink(cells[k].href) # <<>> THEN cells[k].href
         ELSE RowLink(cells, k + 1)

\* a table row that is appended (src/app.py 768-783)
AcceptRow(cells) ==
    /\ Len(cells) > 0
    /\ cells[1].text # <<>>
    /\ Lower(cells[1].text) \notin table_headers

\* the books of one table, in order (src/app.py 767-787)
RECURSIVE TableBooks(_, _)
TableBooks(rows, k) ==
    IF k > Len(rows) THEN <<>>
    ELSE IF AcceptRow(rows[k])
         THEN <<Book(rows[k][1].text, RowLink(rows[k], 1))>>
              \o TableBooks(rows, k + 1)
         ELSE TableBooks(rows, k + 1)

IsHeading(elem) == elem.name \in { "h2", "h3", "h4" }

\* the books an element adds to the open series
ElemBooks(elem) ==
    IF elem.name = "table" THEN TableBooks(elem.rows, 1)
    ELSE IF elem.name = "p" THEN ParagraphBooks(elem)
    ELSE IF elem.name \in { "ul", "ol" } THEN ListBooks(elem.items, 1)
    ELSE <<>>

\* the variant where a skipped header leaves the open series open
RECURSIVE ScanElems_NoReset(_, _, _, _)
ScanElems_NoReset(elems, i, list, current) ==
    IF i > Len(elems) THEN list
    ELSE LET elem == elems[i] IN
         IF IsHeading(elem)
         THEN IF IsSkipHeader(elem.text)
              THEN ScanElems_NoReset(elems, i + 1, list, current)
              ELSE IF elem.text # <<>>
                   THEN ScanElems_NoReset(elems, i + 1,
                            Append(list, [name |-> elem.text, books |-> <<>>]),
                            Len(list) + 1)
                   ELSE ScanElems_NoReset(elems, i + 1, list, current)
         ELSE IF current # 0
              THEN ScanElems_NoReset(elems, i + 1,
                       [list EXCEPT ![current].books = @ \o ElemBooks(elem)],
                       current)
              ELSE ScanElems_NoReset(elems, i + 1, list, current)

\* the loop over the elements (src/app.py 743-846); current is the index
\* in list of the dict current_series refers to, 0 for None
RECURSIVE ScanElems(_, _, _, _)
ScanElems(elems, i, list, current) ==
    IF i > Len(elems) THEN list
    ELSE LET elem == elems[i] IN
         IF IsHeading(elem)
         THEN IF IsSkipHeader(elem.text)
              THEN ScanElems(elems, i + 1, list, 0)
              ELSE IF elem.text # <<>>
                   THEN ScanElems(elems, i + 1,
                            Append(list, [name |-> elem.text, books |-> <<>>]),
                            Len(list) + 1)
                   ELSE ScanElems(elems, i + 1, list, current)
         ELSE IF current # 0
              THEN ScanElems(elems, i + 1,
                       [list EXCEPT ![current].books = @ \o ElemBooks(elem)],
                       current)
              ELSE ScanElems(elems, i + 1, list, current)

HasBooks(s) == Len(s.books) > 0

\* the variant that returns the groups as the scan left them
get_author_books_NoFilter(elems) == ScanElems(elems, 1, <<>>, 0)

\* 'series' of the answer: the scan, then the empty series removed
get_author_books(elems) == SelectSeq(ScanElems(elems, 1, <<>>, 0), HasBooks)

(***************************************************************************)
(* The documents given to get_author_books.                                 *)
(***************************************************************************)
Elem(n, t, h, is, rs) ==
    [name |-> n, text |-> t, href |-> h, items |-> is, rows |-> rs]

Heading(n, t) == Elem(n, t, None, <<>>, <<>>)
Paragraph(t, h) == Elem("p", t, h, <<>>, <<>>)
List(n, is) == Elem(n, <<>>, None, is, <<>>)
Table(rs) == Elem("table", <<>>, None, <<>>, rs)
Part(t, h) == [text |-> t, href |-> h]

AmazonHref == <<"h","t","t","p","s",":","/","/","w","w","w",".","a","m","a","z","o","n",".","c","o","m","/","d","p","/","1">>

SeriesOne == Heading("h3", <<"S","e","r","i","e","s"," ","O","n","e">>)

DocElems ==
    { Heading("h2", <<"S","e","r","i","e","s"," ","O","n","e">>),
      Heading("h3", <<"S","e","r","i","e","s"," ","T","w","o">>),
      Heading("h4", <<>>),
      Heading("h2", <<"A","b","o","u","t"," ","t","h","e"," ","A","u","t","h","o","r">>),
      List("ul", << Part(<<"B","o","o","k"," ","A"," ","(","2","0","0","1",")">>, None), Part(<<"x">>, None) >>),
      List("ol", << Part(<<"x">>, None) >>),
      Paragraph(<<"B","o","o","k"," ","B"," ","(","2","0","0","2",")">>, None),
      Table(<< << Part(<<"T","i","t","l","e">>, None) >>,
               << Part(<<"B","o","o","k"," ","C">>, None), Part(<<"B","u","y">>, AmazonHref) >> >>) }

ListItems ==
    { Part(<<"B","o","o","k"," ","A"," ","(","2","0","0","1",")">>, AmazonHref),
      Part(<<"B","o","o","k"," ","T","w","o"," ","2","0","0","2">>, <<"h","t","t","p","s",":","/","/","x",".","t","e","s","t","/","b","2">>),
      Part(<<"x">>, None),
      Part(<<"S","h","o","r","t"," ","(","1",")">>, None),
      Part(<<"J","a","n","e"," ","A","u","s","t","e","n">>, None),
      Part(<<"T","h","e"," ","N","a","m","e"," ","o","f"," ","t","h","e"," ","R","o","s","e"," ","(","1","9","8","0",")">>, None),
      Part(<<"I","m","a","g","o"," ","(","1","9","8","9",")">>, None),
      Part(<<>>, None) }

LongText ==
    Concat([k \in 1..21 |-> <<"B","o","o","k"," ","D"," ","(","3",")"," ">>])

Paragraphs ==
    { Paragraph(<<"B","o","o","k"," ","B"," ","(","2","0","0","2",")">>, <<"h","t","t","p","s",":","/","/","a","m","z","n",".","t","o","/","b">>),
      Paragraph(<<"B","o","o","k"," ","B"," ","(","2","0","0","2",")">>, <<"h","t","t","p","s",":","/","/","x",".","t","e","s","t","/","b">>),
      Paragraph(<<"A"," ","f","i","n","e"," ","s","t","o","r","y",".">>, None),
      Paragraph(<<"1",":"," ","O","n","e"," ","(","1",")"," ","2",":"," ","T","w","o"," ","(","2",")"," ","3",":"," ","T","h","r","e","e"," ","(","3",")">>, None),
      Paragraph(<<"R","e","a","d"," ","i","n"," ","o","r","d","e","r"," ","(","2","0","0","1",")">>, None),
      Paragraph(LongText, None),
      Paragraph(<<>>, None) }

TableRows ==
    { << >>,
      << Part(<<"T","i","t","l","e">>, None), Part(<<"Y","e","a","r">>, None) >>,
      << Part(<<"B","o","o","k"," ","C">>, None), Part(<<"B","u","y">>, AmazonHref) >>,
      << Part(<<"B","o","o","k"," ","E">>, <<"h","t","t","p","s",":","/","/","x",".","t","e","s","t","/","e">>), Part(<<"2","0","0","3">>, None) >>,
      << Part(<<>>, None) >> }

Documents ==
    SeqsUpTo(DocElems, MaxElems)
    \cup { << SeriesOne, List(n, is) >> :
             n \in { "ul", "ol" }, is \in SeqsUpTo(ListItems, MaxItems) }
    \cup { << SeriesOne, p >> : p \in Paragraphs }
    \cup { << SeriesOne, Table(rs) >> : rs \in SeqsUpTo(TableRows, MaxRows) }

InitAuthor ==
    /\ content \in Documents
    /\ series_list = <<>>
    /\ pc = "call"
    /\ IdleClean /\ IdleFeed /\ IdleLibrary /\ IdleSearch

GetAuthorBooks ==
    /\ pc = "call"
    /\ series_list' = get_author_books(content)
    /\ pc' = "done"
    /\ UNCHANGED <<raw_html, cleantext, xml_content, well_formed, base_url, entries,
                   book_titles, resp, results, content,
                   query, fetched, soup, authors, ran>>

NextAuthor == GetAuthorBooks

SpecAuthor == InitAuthor /\ [][NextAuthor]_vars

(***************************************************************************)
(* search_bookseriesinorder (src/app.py 444-666)                            *)
(*                                                                          *)
(* soup is the list of the page's elements that the handler looks at, in    *)
(* document order.  An element is a record: tag ("article", "div", "h2",    *)
(* "h3" or "a"), class (the class attribute, None without one), title       *)
(* (an article or div has a heading that serves as its title), link (the    *)
(* first a of the title, of the heading, or the a itself; its href is None  *)
(* without the attribute), body (the first a[href] of an article or div),   *)
(* and next (the element's next sibling, or the excerpt of an article:      *)
(* its tag name and its text).  Texts are what get_text(strip=True) gives.  *)
(***************************************************************************)
MaxNodes == 2       \* elements in one search page

site == <<"h","t","t","p","s",":","/","/","w","w","w",".","b","o","o","k","s","e","r","i","e","s","i","n","o","r","d","e","r",".","c","o","m">>

domain == <<"b","o","o","k","s","e","r","i","e","s","i","n","o","r","d","e","r",".","c","o","m">>

\* s[:n]
Truncate(s, n) == SubSeq(s, 1, Min(n, Len(s)))

\* class_=lambda x: x and any(c in str(x).lower() for c in [...]) (480)
IsPostClass(class) ==
    /\ Truthy(class)
    /\ LET lower == Lower(class) IN
       \/ Contains(lower, <<"p","o","s","t">>)
       \/ Contains(lower, <<"s","e","a","r","c","h","-","r","e","s","u","l","t">>)
       \/ Contains(lower, <<"r","e","s","u","l","t">>)

IsArticle(node) == node.tag = "article"

IsPostDiv(node) == node.tag = "div" /\ IsPostClass(node.class)

\* articles (src/app.py 476-480): the article elements, else the post divs
Containers(nodes) ==
    IF SelectSeq(nodes, IsArticle) # <<>>
    THEN SelectSeq(nodes, IsArticle)
    ELSE SelectSeq(nodes, IsPostDiv)

\* all_links (src/app.py 463): every a[href] of the page, in order, with
\* the a's next sibling
LinksOf(node) ==
    (IF node.link.present /\ node.link.href # None
     THEN << [href |-> node.link.href, text |-> node.link.text,
              next |-> IF node.tag = "a" THEN node.next
                       ELSE [name |-> "", text |-> <<>>]] >>
     ELSE <<>>)
    \o (IF node.body.present
        THEN << [href |-> node.body.href, text |-> node.body.text,
                 next |-> [name |-> "", text |-> <<>>]] >>
        ELSE <<>>)

RECURSIVE AllLinks(_, _)
AllLinks(nodes, i) ==
    IF i > Len(nodes) THEN <<>>
    ELSE LinksOf(nodes[i]) \o AllLinks(nodes, i + 1)

\* one article (src/app.py 605-657): the authors it appends
ArticleAuthor(article) ==
    IF ~article.title THEN <<>>
    ELSE LET link_elem == IF article.link.present THEN article.link
                          ELSE article.body
         IN  IF ~link_elem.present THEN <<>>
             ELSE LET author_url == IF link_elem.href = None THEN <<>>
                                    ELSE link_elem.href
                  IN  IF author_url = <<>> \/ author_url = <<"#">> THEN <<>>
                      ELSE << [name        |-> link_elem.text,
                               url         |-> author_url,
                               description |->
                                   IF article.next.name \in { "p", "div" }
                                   THEN article.next.text ELSE <<>>] >>

RECURSIVE ArticleStrategy(_, _)
ArticleStrategy(articles, i) ==
    IF i > Len(articles) THEN <<>>
    ELSE ArticleAuthor(articles[i]) \o ArticleStrategy(articles, i + 1)

NoTagOrCategory(url) ==
    ~Contains(url, <<"/","t","a","g","/">>) /\ ~Contains(url, <<"/","c","a","t","e","g","o","r","y","/">>)

\* one h2 or h3 (src/app.py 486-517): the authors it appends
HeadingAuthor(h_tag) ==
    IF ~(h_tag.link.present /\ h_tag.link.href # None) THEN <<>>
    ELSE LET href == h_tag.link.href
             description ==
                 IF h_tag.next.name \in { "p", "div" }
                 THEN Truncate(h_tag.next.text, 200) ELSE <<>>
             author(url) ==
                 << [name |-> h_tag.link.text, url |-> url,
                     description |-> description] >>
         IN  IF href = <<>> \/ href = <<"#">> THEN <<>>
             ELSE IF Contains(href, domain) /\ NoTagOrCategory(href)
                  THEN author(href)
             ELSE IF /\ StartsWith(href, <<"/">>)
                     /\ href \notin { <<"/">>, <<"/","?","s","=">> }
                     /\ NoTagOrCategory(site \o href)
                  THEN author(site \o href)
                  ELSE <<>>

RECURSIVE HeadingStrategy(_, _)
HeadingStrategy(nodes, i) ==
    IF i > Len(nodes) THEN <<>>
    ELSE IF nodes[i].tag \in { "h2", "h3" }
         THEN HeadingAuthor(nodes[i]) \o HeadingStrategy(nodes, i + 1)
         ELSE HeadingStrategy(nodes, i + 1)

skip_patterns ==
    { <<"/","c","h","a","r","a","c","t","e","r","s","/">>, <<"/","a","u","t","h","o","r","s","/">>, <<"/","b","o","o","k","-","r","e","l","e","a","s","e","-","c","a","l","e","n","d","a","r","/">>, <<"/","a","b","o","u","t","/">>,
      <<"/","c","o","n","t","a","c","t","/">>, <<"/","p","r","i","v","a","c","y","-","p","o","l","i","c","y","/">>, <<"/","t","a","g","/">>, <<"/","c","a","t","e","g","o","r","y","/">>, <<"/","p","a","g","e","/">> }

junk_phrases ==
    { <<"b","o","o","k"," ","n","o","t","i","f","i","c","a","t","i","o","n">>, <<"c","l","i","c","k"," ","h","e","r","e">>, <<"c","h","e","c","k"," ","o","u","t"," ","t","h","i","s"," ","g","r","e","a","t"," ","s","e","r","i","e","s">>,
      <<"p","r","i","v","a","c","y"," ","p","o","l","i","c","y">>, <<"c","o","o","k","i","e"," ","p","o","l","i","c","y">>, <<"t","e","r","m","s"," ","o","f"," ","s","e","r","v","i","c","e">>, <<"c","l","i","c","k">>, <<"h","e","r","e">>,
      <<"n","o","t","i","f","i","c","a","t","i","o","n">> }

\* href.split('?')[0]
PathPart(href) == SubSeq(href, 1, FirstOf(href, {"?"}, 1) - 1)

\* the loop over all_links (src/app.py 522-602)
RECURSIVE LinkStrategy(_, _, _, _)
LinkStrategy(links, i, seen_urls, found) ==
    IF i > Len(links) THEN found
    ELSE LET link == links[i]
             text == link.text
             href == IF StartsWith(link.href, <<"h","t","t","p">>) THEN link.href
                     ELSE site \o link.href
             skip == LinkStrategy(links, i + 1, seen_urls, found)
         IN  IF text = <<>> \/ link.href = <<>> THEN skip
             ELSE IF ~Contains(link.href, domain) THEN skip
             ELSE IF href \in { site, site \o <<"/">> } THEN skip
             ELSE IF \/ \E pattern \in skip_patterns :
                           Contains(PathPart(href), pattern)
                     \/ Contains(href, <<"?","s","=">>)
                     \/ href \in seen_urls
                  THEN skip
             ELSE IF LET text_lower == Lower(text) IN
                     \E junk \in junk_phrases : Contains(text_lower, junk)
                  THEN LinkStrategy(links, i + 1, seen_urls \cup { href },
                                    found)
                  ELSE LinkStrategy(links, i + 1, seen_urls \cup { href },
                           Append(found,
                               [name |-> text, url |-> href,
                                description |->
                                    IF link.next.name = "p"
                                    THEN Truncate(link.next.text, 200)
                                    ELSE <<>>]))

\* the variant that collects the links whatever the headings gave
search_page_Both(nodes) ==
    LET articles == Containers(nodes) IN
    IF articles = <<>>
    THEN [authors |-> LinkStrategy(AllLinks(nodes, 1), 1, {},
                                   HeadingStrategy(nodes, 1)),
          ran     |-> { "heading", "links" }]
    ELSE [authors |-> ArticleStrategy(articles, 1), ran |-> { "article" }]

\* the strategies over a fetched page (src/app.py 475-657): the authors
\* list, and which of the strategies ran
search_page(nodes) ==
    LET articles == Containers(nodes) IN
    IF articles = <<>>
    THEN LET headings == HeadingStrategy(nodes, 1) IN
         IF Len(headings) = 0
         THEN [authors |-> LinkStrategy(AllLinks(nodes, 1), 1, {}, headings),
               ran     |-> { "heading", "links" }]
         ELSE [authors |-> headings, ran |-> { "heading" }]
    ELSE [authors |-> ArticleStrategy(articles, 1), ran |-> { "article" }]

(***************************************************************************)
(* The search pages given to search_bookseriesinorder.                      *)
(***************************************************************************)
NoLink == [present |-> FALSE, href |-> None, text |-> <<>>]
Link(href, text) == [present |-> TRUE, href |-> href, text |-> text]
NoNext == [name |-> "", text |-> <<>>]
Next(name, text) == [name |-> name, text |-> text]

Node(tag, class, title, link, body, next) ==
    [tag |-> tag, class |-> class, title |-> title, link |-> link,
     body |-> body, next |-> next]

Anchor(href, text) == Node("a", None, FALSE, Link(href, text), NoLink, NoNext)

HeadingLink(tag, href, text) ==
    Node(tag, None, FALSE, Link(href, text), NoLink, NoNext)

LeeChild == site \o <<"/","l","e","e","-","c","h","i","l","d","/">>

Grisham == site \o <<"/","j","o","h","n","-","g","r","i","s","h","a","m","/">>

SearchNodes ==
    { Node("article", <<"p","o","s","t"," ","t","y","p","e","-","p","o","s","t">>, TRUE, Link(LeeChild, <<"L","e","e"," ","C","h","i","l","d">>),
           NoLink, Next("p", <<"T","h","r","i","l","l","e","r","s",".">>)),
      Node("article", None, TRUE, NoLink, Link(<<"#">>, <<"T","o","p">>), NoNext),
      Node("article", None, TRUE, Link(None, <<"L","e","e"," ","C","h","i","l","d">>),
           Link(LeeChild, <<"R","e","a","d"," ","m","o","r","e">>), NoNext),
      Node("article", None, FALSE, NoLink, Link(LeeChild, <<"L","e","e"," ","C","h","i","l","d">>), NoNext),
      Node("div", <<"S","e","a","r","c","h","-","R","e","s","u","l","t">>, TRUE, NoLink, Link(Grisham, <<"J","o","h","n"," ","G","r","i","s","h","a","m">>),
           Next("div", <<"L","e","g","a","l"," ","t","h","r","i","l","l","e","r","s",".">>)),
      Node("div", <<"s","i","d","e","b","a","r">>, FALSE, NoLink, Link(Grisham, <<"J","o","h","n"," ","G","r","i","s","h","a","m">>),
           NoNext),
      Node("h2", None, FALSE, Link(LeeChild, <<"L","e","e"," ","C","h","i","l","d">>), NoLink,
           Next("p", <<"T","h","r","i","l","l","e","r","s",".">>)),
      Node("h3", None, FALSE, Link(<<"/","j","o","h","n","-","g","r","i","s","h","a","m","/">>, <<"J","o","h","n"," ","G","r","i","s","h","a","m">>), NoLink,
           Next("ul", <<>>)),
      Node("h2", None, FALSE, NoLink, NoLink, NoNext),
      HeadingLink("h2", site \o <<"/","t","a","g","/","t","h","r","i","l","l","e","r","/">>, <<"T","h","r","i","l","l","e","r">>),
      HeadingLink("h3", <<"/","c","a","t","e","g","o","r","y","/","c","r","i","m","e","/">>, <<"C","r","i","m","e">>),
      HeadingLink("h2", site \o <<"/">>, <<"B","o","o","k"," ","S","e","r","i","e","s"," ","I","n"," ","O","r","d","e","r">>),
      HeadingLink("h3", <<"/">>, <<"H","o","m","e">>),
      HeadingLink("h3", <<"/","?","s","=">>, <<"S","e","a","r","c","h">>),
      HeadingLink("h2", <<"#">>, <<"T","o","p">>),
      HeadingLink("h2", <<"l","e","e","-","c","h","i","l","d","/">>, <<"L","e","e"," ","C","h","i","l","d">>),
      Node("a", None, FALSE, Link(LeeChild, <<"L","e","e"," ","C","h","i","l","d">>), NoLink,
           Next("p", <<"T","h","r","i","l","l","e","r","s",".">>)),
      Anchor(LeeChild, <<"C","l","i","c","k"," ","h","e","r","e">>),
      Anchor(Grisham, <<"J","o","h","n"," ","G","r","i","s","h","a","m">>),
      Anchor(site \o <<"/","a","b","o","u","t","/">>, <<"A","b","o","u","t">>),
      Anchor(site \o <<"/","?","s","=","l","e","e">>, <<"L","e","e">>),
      Anchor(<<"/","l","e","e","-","c","h","i","l","d","/">>, <<"L","e","e"," ","C","h","i","l","d">>),
      Anchor(<<"w","w","w",".","b","o","o","k","s","e","r","i","e","s","i","n","o","r","d","e","r",".","c","o","m","/","l","e","e","-","c","h","i","l","d","/">>, <<"L","e","e"," ","C","h","i","l","d">>),
      Anchor(LeeChild, <<>>),
      Anchor(site, <<"H","o","m","e">>),
      Anchor(<<"h","t","t","p","s",":","/","/","s","h","a","r","e",".","t","e","s","t","/","?","u","=","h","t","t","p","s",":","/","/","w","w","w",".","b","o","o","k","s","e","r","i","e","s","i","n","o","r","d","e","r",".","c","o","m","/","l","e","e","-","c","h","i","l","d","/">>,
             <<"S","h","a","r","e">>) }

SearchPages == SeqsUpTo(SearchNodes, MaxNodes)

InitSearch ==
    /\ \/ query = <<"l","e","e">> /\ fetched = TRUE /\ soup \in SearchPages
       \/ query = <<"l","e","e">> /\ fetched = FALSE /\ soup = <<>>
       \/ query = <<>> /\ fetched = TRUE /\ soup = <<>>
    /\ authors = <<>>
    /\ ran = {}
    /\ pc = "call"
    /\ IdleClean /\ IdleFeed /\ IdleLibrary /\ IdleAuthor

\* the handler: no query answers the empty list, a failed request answers
\* an error, a fetched page is searched
SearchBookseriesinorder ==
    /\ pc = "call"
    /\ IF query = <<>>
       THEN authors' = <<>> /\ ran' = {} /\ pc' = "done"
       ELSE IF ~fetched
            THEN authors' = <<>> /\ ran' = {} /\ pc' = "error"
            ELSE /\ authors' = search_page(soup).authors
                 /\ ran' = search_page(soup).ran
                 /\ pc' = "done"
    /\ UNCHANGED <<raw_html, cleantext, xml_content, well_formed, base_url,
                   entries, book_titles, resp, results, content, series_list,
                   query, fetched, soup>>

NextSearch == SearchBookseriesinorder

SpecSearch == InitSearch /\ [][NextSearch]_vars

(***************************************************************************)
(* C10 (as stated): the value of clean_html has no '<' and no '>', no run   *)
(* of two blanks, no leading or trailing blank, and cleaning it again       *)
(* leaves it unchanged.                                                     *)
(***************************************************************************)
HasChar(s, c) == \E i \in 1..Len(s) : s[i] = c

WsNormal(s) ==
    /\ \A i \in 1..Len(s) : IsSpace(s[i]) => s[i] = " "
    /\ \A i \in 1..(Len(s) - 1) : ~(IsSpace(s[i]) /\ IsSpace(s[i + 1]))
    /\ s # <<>> => ~IsSpace(s[1]) /\ ~IsSpace(s[Len(s)])

C10_AsStated ==
    pc = "done" =>
    /\ ~HasChar(cleantext, "<")
    /\ ~HasChar(cleantext, ">")
    /\ WsNormal(cleantext)
    /\ clean_html(cleantext) = cleantext

\* a complete tag span: '<', one or more characters other than '>', '>'
HasTagSpan(s) ==
    \E i \in 1..Len(s) : \E j \in (i + 2)..Len(s) :
        /\ s[i] = "<"
        /\ s[j] = ">"
        /\ \A k \in (i + 1)..(j - 1) : s[k] # ">"

(***************************************************************************)
(* C10 (amended): the value of clean_html contains no complete tag span     *)
(* '<...>', no run of two blanks and no leading or trailing blank, and      *)
(* cleaning it again leaves it unchanged whenever it contains no '&'.       *)
(***************************************************************************)
C10_CleanHtmlNormal ==
    pc = "done" =>
    /\ ~HasTagSpan(cleantext)
    /\ WsNormal(cleantext)
    /\ ~HasChar(cleantext, "&") => clean_html(cleantext) = cleantext

\* a tag and a blank run were removed, and a lone '<' or '>' was kept
C10_Witness ==
    /\ pc = "done"
    /\ raw_html # None
    /\ HasTagSpan(raw_html)
    /\ Len(cleantext) < Len(raw_html)
    /\ cleantext # <<>>
    /\ ~HasChar(cleantext, "&")
    /\ HasChar(cleantext, "<") \/ HasChar(cleantext, ">")

IsCollection(m) == m.property = "belongs-to-collection"
IsPosition(m) == m.property = "group-position"

(***************************************************************************)
(* C1 (as stated): for an entry with two belongs-to-collection metas of     *)
(* different ids, the emitted series_index is never the text of a           *)
(* group-position that refines one of them while the emitted series_name    *)
(* is the text of the other.                                                *)
(***************************************************************************)
C1_AsStated ==
    (pc = "done" /\ Len(entries) = Len(xml_content)) =>
    \A i \in 1..Len(xml_content) :
        LET ms == xml_content[i].metas IN
        \A a \in 1..Len(ms) : \A b \in 1..Len(ms) : \A g \in 1..Len(ms) :
            ( /\ IsCollection(ms[a]) /\ IsCollection(ms[b])
              /\ ms[a].id # ms[b].id
              /\ IsPosition(ms[g])
              /\ ms[g].refines = <<"#">> \o ms[a].id )
            => ~( /\ entries[i].series_index = ms[g].text
                  /\ entries[i].series_name = ms[b].text )

IsHttpUrl(h) == StartsWith(h, <<"h","t","t","p",":","/","/">>) \/ StartsWith(h, <<"h","t","t","p","s",":","/","/">>)

IsImageRel(r) ==
    Truthy(r) /\ (Contains(r, <<"i","m","a","g","e">>) \/ Contains(r, <<"t","h","u","m","b","n","a","i","l">>))

(***************************************************************************)
(* C3 (as stated): every link with an href is rewritten by one of three     *)
(* rules: a '/' href with an image or thumbnail rel becomes the image-proxy *)
(* reference, an absolute http or https URL passes through verbatim, and    *)
(* any other href is resolved against base_url, so that no relative href    *)
(* is returned unresolved.                                                  *)
(***************************************************************************)
C3_AsStated ==
    (pc = "done" /\ Len(entries) = Len(xml_content)) =>
    \A i \in 1..Len(xml_content) :
        \A k \in 1..Len(xml_content[i].links) :
            LET link == xml_content[i].links[k]
                out  == entries[i].links[k].href
            IN  Truthy(link.href) =>
                IF StartsWith(link.href, <<"/">>) /\ IsImageRel(link.rel)
                THEN out = ImageProxy \o link.href
                ELSE IF IsHttpUrl(link.href)
                     THEN out = link.href
                     ELSE /\ out = urljoin(base_url, link.href)
                          /\ ~HasScheme(link.href) => out # link.href

C4_Labels == { <<"L","i","b","r","a","r","i","e","s">>, <<"S","h","e","l","v","e","s">>, <<"M","a","g","i","c"," ","S","h","e","l","v","e","s">> }

C4_Title(e) == IF e.title = Absent THEN <<"U","n","k","n","o","w","n"," ","T","i","t","l","e">> ELSE e.title

C4_Kept(e) == C4_Title(e) \notin C4_Labels

(***************************************************************************)
(* C4: the list parse_opds_feed returns has no entry titled 'Libraries',    *)
(* 'Shelves' or 'Magic Shelves', and it has every other entry of the feed,  *)
(* in document order.                                                       *)
(***************************************************************************)
C4_NoContainerEntries ==
    pc = "done" =>
    /\ \A i \in 1..Len(entries) : entries[i].title \notin C4_Labels
    /\ LET kept == SelectSeq(xml_content, C4_Kept) IN
       /\ Len(entries) = Len(kept)
       /\ \A i \in 1..Len(kept) : entries[i] = ParseEntry(kept[i], base_url)

\* a container entry was dropped between two entries that were emitted
C4_Witness ==
    /\ pc = "done"
    /\ Len(entries) = 2
    /\ Len(xml_content) = 3
    /\ xml_content[2].title = <<"M","a","g","i","c"," ","S","h","e","l","v","e","s">>
    /\ entries[1].title # entries[2].title

\* the score of the title t against the i-th parsed entry
C2_Score(t, i) == match_score(Normalize(t), Normalize(entries[i].title))

(***************************************************************************)
(* C2: for each query title of the answer, the reported match is the entry  *)
(* with the maximum score over all parsed entries and, among the entries    *)
(* with that score, the first in feed order; it is reported only if that    *)
(* score is at least 70.                                                    *)
(***************************************************************************)
C2_BestMatchFirst ==
    pc = "done" =>
    \A t \in DOMAIN results :
        LET score == [j \in 1..Len(entries) |-> C2_Score(t, j)] IN
        IF results[t].in_library
        THEN \E i \in 1..Len(entries) :
                /\ \A j \in 1..Len(entries) : score[j] <= score[i]
                /\ \A j \in 1..(i - 1) : score[j] < score[i]
                /\ score[i] >= 70
                /\ results[t].match_score = score[i]
                /\ results[t].opds_title = entries[i].title
        ELSE \A j \in 1..Len(entries) : score[j] < 70

\* two entries with different titles share the maximum score, and the
\* first of them is the one reported
C2_Witness ==
    /\ pc = "done"
    /\ Len(entries) = 2
    /\ entries[1].title # entries[2].title
    /\ \E t \in DOMAIN results :
          /\ results[t].in_library
          /\ C2_Score(t, 1) = 85
          /\ C2_Score(t, 2) = 85
          /\ results[t].opds_title = entries[1].title

\* the catalog was fetched and parsed
C5_Parsed == pc = "done" /\ book_titles # <<>> /\ resp.status_code = 200

(***************************************************************************)
(* C5 (as stated): whenever some catalog entry's normalized title equals    *)
(* the normalized query title, the result for that query has                *)
(* in_library = True and match_score 100.                                   *)
(***************************************************************************)
C5_AsStated ==
    C5_Parsed =>
    \A q \in 1..Len(book_titles) :
        ( \E i \in 1..Len(entries) :
             /\ entries[i].title # None
             /\ Normalize(entries[i].title) = Normalize(book_titles[q]) )
        => /\ book_titles[q] \in DOMAIN results
           /\ results[book_titles[q]].in_library
           /\ results[book_titles[q]].match_score = 100

C6_Subset(a, b) ==
    LET wa == WordSet(a)
        wb == WordSet(b)
    IN  /\ a # b
        /\ wa \cap wb # {}
        /\ (wa \subseteq wb) \/ (wb \subseteq wa)

(***************************************************************************)
(* C6: when the two normalized titles differ, share a word, and every word  *)
(* of one occurs in the other, the score of the pair is 85 whichever of     *)
(* the two is the query; with that entry alone in the catalog the query is  *)
(* reported with score 85.                                                  *)
(***************************************************************************)
C6_SubsetScores85 ==
    pc = "done" =>
    \A t \in DOMAIN results : \A i \in 1..Len(entries) :
        LET a == Normalize(t)
            b == Normalize(entries[i].title)
        IN  C6_Subset(a, b) =>
            /\ match_score(a, b) = 85
            /\ match_score(b, a) = 85
            /\ Len(entries) = 1 =>
                  results[t].in_library /\ results[t].match_score = 85

\* a query with more words than the entry was scored 85
C6_Witness ==
    /\ pc = "done"
    /\ Len(entries) = 1
    /\ \E t \in DOMAIN results :
          /\ results[t].in_library
          /\ results[t].match_score = 85
          /\ Cardinality(WordSet(Normalize(t))) >
                Cardinality(WordSet(Normalize(entries[1].title)))

(***************************************************************************)
(* C7 (as stated): once the catalog is parsed, a query title gets the       *)
(* result {in_library: False}, with no other field, exactly when no entry   *)
(* scores at least 70 against it; so it does for every query when the feed  *)
(* has no entry and when no entry shares a word with the query.             *)
(***************************************************************************)
C7_AsStated ==
    C5_Parsed =>
    \A q \in 1..Len(book_titles) :
        LET t == book_titles[q] IN
        ( \A i \in 1..Len(entries) :
             \/ entries[i].title = None
             \/ match_score(Normalize(t), Normalize(entries[i].title)) < 70 )
        <=> (t \in DOMAIN results /\ results[t] = NotInLibrary)

\* the element adds a book to an open series: an accepted item
C8_Accepted(elem) == ElemBooks(elem) # <<>>

\* index of the first heading after i that ends the span of heading i:
\* any heading, or (skipEmpty) any heading that has text
RECURSIVE C8_SpanEnd(_, _, _)
C8_SpanEnd(elems, i, skipEmpty) ==
    IF i + 1 > Len(elems) THEN Len(elems) + 1
    ELSE IF /\ IsHeading(elems[i + 1])
            /\ (skipEmpty => elems[i + 1].text # <<>>)
         THEN i + 1
         ELSE C8_SpanEnd(elems, i + 1, skipEmpty)

C8_HasItem(elems, i, skipEmpty) ==
    \E k \in (i + 1)..(C8_SpanEnd(elems, i, skipEmpty) - 1) :
        ~IsHeading(elems[k]) /\ C8_Accepted(elems[k])

RECURSIVE IsSubseq(_, _)
IsSubseq(a, b) ==
    IF a = <<>> THEN TRUE
    ELSE IF b = <<>> THEN FALSE
    ELSE IF Head(a) = Head(b) THEN IsSubseq(Tail(a), Tail(b))
    ELSE IsSubseq(a, Tail(b))

\* the texts of the headings that have an accepted item before the next
\* heading, in document order
RECURSIVE C8_HeadingsWithItems(_, _)
C8_HeadingsWithItems(elems, i) ==
    IF i > Len(elems) THEN <<>>
    ELSE IF IsHeading(elems[i]) /\ C8_HasItem(elems, i, FALSE)
         THEN <<elems[i].text>> \o C8_HeadingsWithItems(elems, i + 1)
         ELSE C8_HeadingsWithItems(elems, i + 1)

C8_Names == [k \in 1..Len(series_list) |-> series_list[k].name]

RECURSIVE C8_SeriesWithItems(_, _)
C8_SeriesWithItems(elems, i) ==
    IF i > Len(elems) THEN <<>>
    ELSE IF /\ IsHeading(elems[i])
            /\ elems[i].text # <<>>
            /\ ~IsSkipHeader(elems[i].text)
            /\ C8_HasItem(elems, i, TRUE)
         THEN <<elems[i].text>> \o C8_SeriesWithItems(elems, i + 1)
         ELSE C8_SeriesWithItems(elems, i + 1)

C9_ListDoc ==
    /\ Len(content) >= 2
    /\ IsHeading(content[1])
    /\ content[1].text # <<>>
    /\ ~IsSkipHeader(content[1].text)
    /\ \A k \in 2..Len(content) : content[k].name \in { "ul", "ol" }

\* the list items of the document, in document order
RECURSIVE C9_Items(_, _)
C9_Items(elems, k) ==
    IF k > Len(elems) THEN <<>>
    ELSE elems[k].items \o C9_Items(elems, k + 1)

C9_Short(it) ==
    \/ Len(it.text) < 10
    \/ \A k \in 1..Len(it.text) : it.text[k] \notin Digits \cup { "(", ")" }

C9_KeptAsStated(it) == ~C9_Short(it)

C9_Kept(it) ==
    /\ ~C9_Short(it)
    /\ \A w \in { <<"n","a","m","e">>, <<"e","m","a","i","l">>, <<"c","o","m","m","e","n","t">>, <<"a","g","o">> } :
          ~Contains(Lower(it.text), w)

\* the titles of the books of the only series returned
C9_Titles ==
    IF series_list = <<>> THEN <<>>
    ELSE [k \in 1..Len(series_list[1].books) |->
             series_list[1].books[k].title]

C9_Texts(items) == [k \in 1..Len(items) |-> items[k].text]

(***************************************************************************)
(* C9 (as stated): while a series is open, a list item is rejected if its   *)
(* text is shorter than 10 characters or has neither a digit nor a          *)
(* parenthesis, and every other list item is appended, in document order,   *)
(* as a book of the current series with its text as the title.              *)
(***************************************************************************)
C9_AsStated ==
    (pc = "done" /\ C9_ListDoc) =>
    /\ Len(series_list) <= 1
    /\ C9_Titles = C9_Texts(SelectSeq(C9_Items(content, 2), C9_KeptAsStated))

(***************************************************************************)
(* C9 (amended): while a series is open, a list item is rejected if its     *)
(* text is shorter than 10 characters, has neither a digit nor a            *)
(* parenthesis, or contains (in lower case) 'name', 'email', 'comment' or   *)
(* 'ago'; every other list item is appended, in document order, as a book   *)
(* of the current series with its text as the title.                        *)
(***************************************************************************)
C9_ListItemsAppended ==
    (pc = "done" /\ C9_ListDoc) =>
    /\ Len(series_list) <= 1
    /\ series_list # <<>> => series_list[1].name = content[1].text
    /\ C9_Titles = C9_Texts(SelectSeq(C9_Items(content, 2), C9_Kept))

\* of three items, two were appended in order and a short one rejected
C9_Witness ==
    /\ pc = "done"
    /\ C9_ListDoc
    /\ Len(content) = 2
    /\ Len(content[2].items) = 3
    /\ Len(content[2].items[2].text) < 10
    /\ Len(series_list) = 1
    /\ Len(series_list[1].books) = 2
    /\ series_list[1].books[1].title = content[2].items[1].text
    /\ series_list[1].books[2].title = content[2].items[3].text
    /\ content[2].items[1].text # content[2].items[3].text

\* the texts of the metas of an entry with the given property
C11_Texts(e, prop) ==
    { e.metas[k].text : k \in { j \in 1..Len(e.metas) : e.metas[j].property = prop } }

C11_HasCollection(e) == \E k \in 1..Len(e.metas) : IsCollection(e.metas[k])

(***************************************************************************)
(* C11 (as stated): for an entry with both a belongs-to-collection meta and *)
(* a schema:Series element, the emitted series_name is the text of a        *)
(* belongs-to-collection meta and the emitted series_index is absent or     *)
(* the text of a group-position meta; the name and position of the Series   *)
(* element are emitted only when the entry has no belongs-to-collection     *)
(* meta.                                                                    *)
(***************************************************************************)
C11_AsStated ==
    (pc = "done" /\ Len(entries) = Len(xml_content)) =>
    \A i \in 1..Len(xml_content) :
        LET e == xml_content[i] IN
        (C11_HasCollection(e) /\ e.series.present) =>
            /\ entries[i].series_name \in C11_Texts(e, "belongs-to-collection")
            /\ entries[i].series_index \in
                   {None} \cup C11_Texts(e, "group-position")
            /\ entries[i].series_name # e.series.name
            /\ entries[i].series_index # e.series.position

\* the text of the last belongs-to-collection meta, None when there is none
C11_LastName(e) ==
    LET cs == { k \in 1..Len(e.metas) : IsCollection(e.metas[k]) } IN
    IF cs = {} THEN None
    ELSE e.metas[CHOOSE k \in cs : \A j \in cs : j <= k].text

(***************************************************************************)
(* C11: when the last belongs-to-collection meta of an entry has a          *)
(* non-empty text, the emitted series_name is that text and the emitted     *)
(* series_index is absent or the text of a group-position meta, whether or  *)
(* not the entry has a schema:Series element; the name and position of      *)
(* the Series element are emitted exactly when the entry has one and the    *)
(* metas gave no series name (no belongs-to-collection meta, or the last    *)
(* one without text).                                                       *)
(***************************************************************************)
C11_CollectionFirst ==
    (pc = "done" /\ Len(entries) = Len(xml_content)) =>
    \A i \in 1..Len(xml_content) :
        LET e    == xml_content[i]
            name == C11_LastName(e)
        IN  IF name # None /\ name # <<>>
            THEN /\ entries[i].series_name = name
                 /\ entries[i].series_index \in
                        {None} \cup C11_Texts(e, "group-position")
            ELSE e.series.present =>
                 /\ entries[i].series_name = e.series.name
                 /\ entries[i].series_index = e.series.position

\* an entry with a named collection, its position and a Series element
C11_Witness ==
    /\ pc = "done"
    /\ Len(entries) = 1 /\ Len(xml_content) = 1
    /\ xml_content[1].series.present
    /\ Len(xml_content[1].metas) = 2
    /\ IsCollection(xml_content[1].metas[1])
    /\ IsPosition(xml_content[1].metas[2])
    /\ entries[1].series_name = <<"S","a","g","a"," ","A">>
    /\ entries[1].series_index = <<"1">>

\* the href of the first link of an emitted entry whose rel contains
\* 'acquisition', None when it has none
C12_FirstAcq(links) ==
    LET acq == { k \in 1..Len(links) : Contains(links[k].rel, <<"a","c","q","u","i","s","i","t","i","o","n">>) } IN
    IF acq = {} THEN None
    ELSE links[CHOOSE k \in acq : \A j \in acq : k <= j].href

(***************************************************************************)
(* C12: for each query title reported in_library, the matched entry (the    *)
(* first entry with the maximum score) supplies all three reported values:  *)
(* opds_title is its title as emitted by parse_opds_feed, match_score is    *)
(* its score, and download_url is the href of its first link, in link       *)
(* order, whose rel contains 'acquisition', None when it has no such link.  *)
(***************************************************************************)
C12_OneEntryReported ==
    pc = "done" =>
    \A t \in DOMAIN results :
        results[t].in_library =>
        LET score == [j \in 1..Len(entries) |-> C2_Score(t, j)] IN
        \E i \in 1..Len(entries) :
            /\ \A j \in 1..Len(entries) : score[j] <= score[i]
            /\ \A j \in 1..(i - 1) : score[j] < score[i]
            /\ results[t].opds_title = entries[i].title
            /\ results[t].match_score = score[i]
            /\ results[t].download_url = C12_FirstAcq(entries[i].links)

\* two matching entries with different acquisition links, the first with
\* a title that differs from its normal form: the first one's title and
\* link are reported
C12_Witness ==
    /\ pc = "done"
    /\ Len(entries) = 2
    /\ entries[1].title = <<"d","u","n","e"," ","(","1","9","6","5",")">>
    /\ entries[2].title = <<"D","u","n","e">>
    /\ C12_FirstAcq(entries[1].links) # None
    /\ C12_FirstAcq(entries[2].links) # None
    /\ C12_FirstAcq(entries[1].links) # C12_FirstAcq(entries[2].links)
    /\ \E t \in DOMAIN results :
          /\ results[t].in_library
          /\ results[t].opds_title = entries[1].title
          /\ results[t].download_url = entries[1].links[1].href

(***************************************************************************)
(* C13 (as stated): every emitted entry has a title that is a non-empty     *)
(* string, and an entry without a title element is emitted with the title   *)
(* 'Unknown Title'.                                                         *)
(***************************************************************************)
C13_AsStated ==
    pc = "done" =>
    /\ \A i \in 1..Len(entries) :
          /\ entries[i].title # None
          /\ entries[i].title # Absent
          /\ entries[i].title # <<>>
    /\ \A k \in 1..Len(xml_content) :
          xml_content[k].title = Absent =>
          \E i \in 1..Len(entries) : entries[i].title = <<"U","n","k","n","o","w","n"," ","T","i","t","l","e">>

(***************************************************************************)
(* C14: a call of parse_opds_feed on bytes that are not well-formed XML     *)
(* ends with the exception raised to its caller: it does not return, so     *)
(* no entry list, empty or partial, comes out of it.                        *)
(***************************************************************************)
C14_ParseErrorRaised ==
    (~well_formed /\ pc # "call") => (pc = "raised" /\ entries = <<>>)

\* the bytes break off after two entries: the call raised
C14_Witness ==
    /\ ~well_formed
    /\ Len(xml_content) = 2
    /\ xml_content[1].title = <<"D","u","n","e">>
    /\ pc = "raised"

C15_Fillers == { <<"a">>, <<"a","n">>, <<"t","h","e">>, <<"a","n","d">>, <<"o","r">>, <<"b","u","t">> }

\* neither 100 nor 85 applies, and the titles share every word of the
\* smaller filler-stripped word set, which has a word
C15_Significant(a, b) ==
    LET wa == WordSet(a)
        wb == WordSet(b)
        sa == wa \ C15_Fillers
        sb == wb \ C15_Fillers
        m  == IF Cardinality(sa) < Cardinality(sb)
              THEN Cardinality(sa) ELSE Cardinality(sb)
    IN  /\ a # b
        /\ ~(wa \subseteq wb) /\ ~(wb \subseteq wa)
        /\ Cardinality(sa \cap sb) = m
        /\ m >= 1

(***************************************************************************)
(* C15: when the two normalized titles differ, neither word set contains    *)
(* the other, and without the filler words a, an, the, and, or, but the     *)
(* number of shared words is the size of the smaller set, which is at       *)
(* least 1, the score of the pair is 80 whichever of the two is the query;  *)
(* with that entry alone in the catalog the query is reported with score    *)
(* 80.                                                                      *)
(***************************************************************************)
C15_SignificantScores80 ==
    pc = "done" =>
    \A t \in DOMAIN results : \A i \in 1..Len(entries) :
        LET a == Normalize(t)
            b == Normalize(entries[i].title)
        IN  C15_Significant(a, b) =>
            /\ match_score(a, b) = 80
            /\ match_score(b, a) = 80
            /\ Len(entries) = 1 =>
                  results[t].in_library /\ results[t].match_score = 80

\* 'The Visitor' against 'A Visitor Returns': one shared word of two, and
\* every word that is no filler word of the query
C15_Witness ==
    /\ pc = "done"
    /\ Len(entries) = 1
    /\ \E t \in DOMAIN results :
          /\ C15_Significant(Normalize(t), Normalize(entries[1].title))
          /\ WordSet(Normalize(t)) \cap C15_Fillers # {}
          /\ results[t].in_library
          /\ results[t].match_score = 80
          /\ results[t].opds_title = entries[1].title

\* none of the rules 100, 85 and 80 applies to the pair
C16_NoRule(a, b) ==
    LET wa == WordSet(a)
        wb == WordSet(b)
    IN  /\ a # b
        /\ ~(wa \subseteq wb) /\ ~(wb \subseteq wa)
        /\ ~C15_Significant(a, b)

(***************************************************************************)
(* C16 (as stated): when none of the rules 100, 85 and 80 applies, the      *)
(* score of a pair is 100 * shared \div longer, where shared is the number  *)
(* of words the two unfiltered word sets share and longer the size of the   *)
(* larger one; it is 0 when they share no word; and every score is an       *)
(* integer from 0 to 100.                                                   *)
(***************************************************************************)
C16_AsStated ==
    pc = "done" =>
    \A t \in DOMAIN results : \A i \in 1..Len(entries) :
        LET a  == Normalize(t)
            b  == Normalize(entries[i].title)
            wa == WordSet(a)
            wb == WordSet(b)
            n  == IF Cardinality(wa) > Cardinality(wb)
                  THEN Cardinality(wa) ELSE Cardinality(wb)
        IN  /\ match_score(a, b) \in 0..100
            /\ (a # b /\ wa \cap wb = {}) => match_score(a, b) = 0
            /\ C16_NoRule(a, b) =>
                  match_score(a, b) = (100 * Cardinality(wa \cap wb)) \div n

\* the books of the elements i..j that are no headings, in order
RECURSIVE C17_Books(_, _, _)
C17_Books(elems, i, j) ==
    IF i > j THEN <<>>
    ELSE IF IsHeading(elems[i]) THEN C17_Books(elems, i + 1, j)
    ELSE ElemBooks(elems[i]) \o C17_Books(elems, i + 1, j)

C17_Denylist ==
    { <<"a","b","o","u","t"," ","t","h","e"," ","a","u","t","h","o","r">>, <<"a","u","t","h","o","r"," ","b","i","o">>, <<"b","i","o","g","r","a","p","h","y">>, <<"s","h","a","r","e"," ","t","h","i","s">>, <<"r","e","l","a","t","e","d">>,
      <<"t","a","g","s">>, <<"l","e","a","v","e"," ","a"," ","r","e","p","l","y">>, <<"r","e","s","p","o","n","s","e","s"," ","t","o">>, <<"c","o","m","m","e","n","t","s">>,
      <<"c","h","r","o","n","o","l","o","g","i","c","a","l"," ","o","r","d","e","r">>, <<"s","i","m","i","l","a","r"," ","a","u","t","h","o","r","s">>, <<"a","l","s","o"," ","r","e","a","d">>, <<"r","e","c","o","m","m","e","n","d","e","d">>,
      <<"y","o","u"," ","m","a","y"," ","a","l","s","o"," ","l","i","k","e">> }

C17_Denied(text) ==
    LET lower == Lower(text) IN \E d \in C17_Denylist : Contains(lower, d)

\* one group for each heading that is not denied (and, with skipEmpty,
\* has text): the books of the items up to the next heading (with
\* skipEmpty: the next heading that has text)
RECURSIVE C17_Groups(_, _, _)
C17_Groups(elems, i, skipEmpty) ==
    IF i > Len(elems) THEN <<>>
    ELSE IF /\ IsHeading(elems[i])
            /\ ~C17_Denied(elems[i].text)
            /\ (skipEmpty => elems[i].text # <<>>)
         THEN << [name  |-> elems[i].text,
                  books |-> C17_Books(elems, i + 1,
                                C8_SpanEnd(elems, i, skipEmpty) - 1)] >>
              \o C17_Groups(elems, i + 1, skipEmpty)
         ELSE C17_Groups(elems, i + 1, skipEmpty)

C17_NonEmpty(g) == g.books # <<>>

C18_Articles == SelectSeq(soup, IsArticle)

\* the divs whose class has 'post', 'search-result' or 'result' in it
C18_IsPostDiv(node) ==
    /\ node.tag = "div"
    /\ node.class # None
    /\ \E c \in { <<"p","o","s","t">>, <<"s","e","a","r","c","h","-","r","e","s","u","l","t">>, <<"r","e","s","u","l","t">> } :
          Contains(Lower(node.class), c)

C18_PostDivs == SelectSeq(soup, C18_IsPostDiv)

C18_Searched == pc = "done" /\ query # <<>>

(***************************************************************************)
(* C18: the strategies of search_bookseriesinorder run as a cascade.  With  *)
(* an article element on the page only the article strategy runs, and the   *)
(* answer is what it gives for the article elements; the heading strategy   *)
(* runs only on a page without article elements and without post divs;      *)
(* the link collection runs only when the heading strategy ran and gave no  *)
(* author; and the answer is the list of one strategy alone.                *)
(***************************************************************************)
C18_Cascade ==
    C18_Searched =>
    /\ ran \in { { "article" }, { "heading" }, { "heading", "links" } }
    /\ C18_Articles # <<>> =>
          ran = { "article" } /\ authors = ArticleStrategy(C18_Articles, 1)
    /\ (C18_Articles = <<>> /\ C18_PostDivs # <<>>) =>
          ran = { "article" } /\ authors = ArticleStrategy(C18_PostDivs, 1)
    /\ "heading" \in ran => (C18_Articles = <<>> /\ C18_PostDivs = <<>>)
    /\ ran = { "heading" } =>
          authors = HeadingStrategy(soup, 1) /\ authors # <<>>
    /\ "links" \in ran =>
          /\ "heading" \in ran
          /\ HeadingStrategy(soup, 1) = <<>>
          /\ authors = LinkStrategy(AllLinks(soup, 1), 1, {}, <<>>)

\* a heading with an author link and, after it, a plain link to another
\* author: the answer has the heading's author alone
C18_Witness ==
    /\ C18_Searched
    /\ Len(soup) = 2
    /\ soup[1].tag = "h2" /\ soup[1].link.href = LeeChild
    /\ soup[2].tag = "a" /\ soup[2].link.href = Grisham
    /\ LinkStrategy(AllLinks(soup, 1), 1, {}, <<>>) # <<>>
    /\ ran = { "heading" }
    /\ Len(authors) = 1
    /\ authors[1].url = LeeChild

\* a URL of the site: its origin, then nothing or a path
C19_SameSite(url) ==
    \E origin \in { <<"h","t","t","p","s",":","/","/","w","w","w",".","b","o","o","k","s","e","r","i","e","s","i","n","o","r","d","e","r",".","c","o","m">>, <<"h","t","t","p",":","/","/","w","w","w",".","b","o","o","k","s","e","r","i","e","s","i","n","o","r","d","e","r",".","c","o","m">>,
                     <<"h","t","t","p","s",":","/","/","b","o","o","k","s","e","r","i","e","s","i","n","o","r","d","e","r",".","c","o","m">>, <<"h","t","t","p",":","/","/","b","o","o","k","s","e","r","i","e","s","i","n","o","r","d","e","r",".","c","o","m">> } :
        /\ StartsWith(url, origin)
        /\ Len(url) > Len(origin) => url[Len(origin) + 1] \in { "/", "?", "#" }

\* the homepage, or the search path without a query
C19_Bare(url) ==
    \E origin \in { <<"h","t","t","p","s",":","/","/","w","w","w",".","b","o","o","k","s","e","r","i","e","s","i","n","o","r","d","e","r",".","c","o","m">>, <<"h","t","t","p",":","/","/","w","w","w",".","b","o","o","k","s","e","r","i","e","s","i","n","o","r","d","e","r",".","c","o","m">>,
                     <<"h","t","t","p","s",":","/","/","b","o","o","k","s","e","r","i","e","s","i","n","o","r","d","e","r",".","c","o","m">>, <<"h","t","t","p",":","/","/","b","o","o","k","s","e","r","i","e","s","i","n","o","r","d","e","r",".","c","o","m">> } :
        url \in { origin, origin \o <<"/">>, origin \o <<"/","?","s","=">> }

(***************************************************************************)
(* C19 (as stated): every author the heading strategy emits has an          *)
(* absolute URL of the site that has no '/tag/' and no '/category/' in it   *)
(* and is neither the homepage nor the search path without a query.         *)
(***************************************************************************)
C19_AsStated ==
    (C18_Searched /\ ran = { "heading" }) =>
    \A k \in 1..Len(authors) :
        /\ C19_SameSite(authors[k].url)
        /\ ~Contains(authors[k].url, <<"/","t","a","g","/">>)
        /\ ~Contains(authors[k].url, <<"/","c","a","t","e","g","o","r","y","/">>)
        /\ ~C19_Bare(authors[k].url)

C20_Denylist ==
    { <<"/","c","h","a","r","a","c","t","e","r","s","/">>, <<"/","a","u","t","h","o","r","s","/">>, <<"/","b","o","o","k","-","r","e","l","e","a","s","e","-","c","a","l","e","n","d","a","r","/">>, <<"/","a","b","o","u","t","/">>,
      <<"/","c","o","n","t","a","c","t","/">>, <<"/","p","r","i","v","a","c","y","-","p","o","l","i","c","y","/">>, <<"/","t","a","g","/">>, <<"/","c","a","t","e","g","o","r","y","/">>, <<"/","p","a","g","e","/">> }

C20_Junk ==
    { <<"b","o","o","k"," ","n","o","t","i","f","i","c","a","t","i","o","n">>, <<"c","l","i","c","k"," ","h","e","r","e">>, <<"c","h","e","c","k"," ","o","u","t"," ","t","h","i","s"," ","g","r","e","a","t"," ","s","e","r","i","e","s">>,
      <<"p","r","i","v","a","c","y"," ","p","o","l","i","c","y">>, <<"c","o","o","k","i","e"," ","p","o","l","i","c","y">>, <<"t","e","r","m","s"," ","o","f"," ","s","e","r","v","i","c","e">>, <<"c","l","i","c","k">>, <<"h","e","r","e">>,
      <<"n","o","t","i","f","i","c","a","t","i","o","n">> }

\* the absolute URL of a link of the page
C20_Url(link) ==
    IF StartsWith(link.href, <<"h","t","t","p">>) THEN link.href
    ELSE <<"h","t","t","p","s",":","/","/","w","w","w",".","b","o","o","k","s","e","r","i","e","s","i","n","o","r","d","e","r",".","c","o","m">> \o link.href

\* a link with text whose href names the site, not the homepage and no
\* search, that passes the path denylist and the junk-phrase filter
C20_Acceptable(link) ==
    /\ link.text # <<>> /\ link.href # <<>>
    /\ Contains(link.href, <<"b","o","o","k","s","e","r","i","e","s","i","n","o","r","d","e","r",".","c","o","m">>)
    /\ ~C19_Bare(C20_Url(link))
    /\ ~Contains(C20_Url(link), <<"?","s","=">>)
    /\ \A d \in C20_Denylist : ~Contains(C20_Url(link), d)
    /\ \A j \in C20_Junk : ~Contains(Lower(link.text), j)

\* the acceptable links, the first one for each URL
RECURSIVE C20_FirstPerUrl(_, _)
C20_FirstPerUrl(links, urls) ==
    IF links = <<>> THEN <<>>
    ELSE IF C20_Acceptable(Head(links)) /\ C20_Url(Head(links)) \notin urls
         THEN << Head(links) >>
              \o C20_FirstPerUrl(Tail(links), urls \cup { C20_Url(Head(links)) })
         ELSE C20_FirstPerUrl(Tail(links), urls)

(***************************************************************************)
(* C20 (as stated): the link collection answers one author for each         *)
(* distinct absolute URL among the acceptable links of the page, with the   *)
(* text of the first acceptable link to that URL, in document order; no     *)
(* URL is answered twice.                                                   *)
(***************************************************************************)
C20_AsStated ==
    (C18_Searched /\ "links" \in ran) =>
    LET first == C20_FirstPerUrl(AllLinks(soup, 1), {}) IN
    /\ Len(authors) = Len(first)
    /\ \A k \in 1..Len(first) :
          /\ authors[k].url = C20_Url(first[k])
          /\ authors[k].name = first[k].text
    /\ \A k \in 1..Len(authors) : \A m \in 1..Len(authors) :
          authors[k].url = authors[m].url => k = m

\* the places of the metas of property prop among ms
C21_Places(ms, prop) == { k \in 1..Len(ms) : ms[k].property = prop }

\* an entry with exactly one belongs-to-collection meta, of id X, and exactly
\* one group-position meta, which refines '#X'
C21_OnePair(e) ==
    LET cs == C21_Places(e.metas, "belongs-to-collection")
        gs == C21_Places(e.metas, "group-position")
    IN  /\ Cardinality(cs) = 1
        /\ Cardinality(gs) = 1
        /\ \A c \in cs : \A g \in gs :
               /\ Truthy(e.metas[c].id)
               /\ e.metas[g].refines = <<"#">> \o e.metas[c].id

(***************************************************************************)
(* C21 (as stated): for an entry with exactly one belongs-to-collection     *)
(* meta with id X and exactly one group-position meta whose refines is      *)
(* '#X', the emitted series_index is the group-position's text, whichever   *)
(* of the two elements comes first in the document.                         *)
(***************************************************************************)
C21_AsStated ==
    (pc = "done" /\ Len(entries) = Len(xml_content)) =>
    \A i \in 1..Len(xml_content) :
        C21_OnePair(xml_content[i]) =>
            \A g \in C21_Places(xml_content[i].metas, "group-position") :
                entries[i].series_index = xml_content[i].metas[g].text

====
